---- MODULE Spec2Model ----
(***************************************************************************)
(* Development-application scraper of the District Council of Lower Eyre    *)
(* Peninsula: the column-mode parser (src/scraper.ts), the grid-mode        *)
(* parser (src/unnamed/part_000) and the address normaliser they share.     *)
(*                                                                          *)
(* A JavaScript string is modelled as a sequence of one-character strings,  *)
(* so that trimming, splitting, case conversion and edit distance are       *)
(* computed and not assumed.  Co-ordinates are integers; a percentage is a  *)
(* fraction [num, den] compared by cross-multiplication.                    *)
(***************************************************************************)
EXTENDS Integers, Sequences, FiniteSets, TLC

VARIABLES
    pc,                          \* position of the running program
    pageIndex,                   \* parsePdf: index of the page being parsed
    elements,                    \* parsePdf: text elements of the current page
    leftmostElements,            \* column mode: anchor elements of the page
    index,                       \* column mode: index of the anchor row
    receivedDateHeadingElement,  \* column mode: captured headings
    lotNumberHeadingElement,
    houseNumberHeadingElement,
    streetNameHeadingElement,
    planHeadingElement,
    suburbNameHeadingElement,
    descriptionHeadingElement,
    developmentApplications,     \* parsePdf: the records collected so far
    returned,                    \* parsePdf: the sequence handed to the caller
    cells,                       \* grid mode: cells of the current page
    rows,                        \* grid mode: rows of cells of the current page
    gridHeadingCells,            \* grid mode: heading cells of the current page
    arg,                         \* argument of the function under evaluation
    ret,                         \* its result
    page,                        \* parsePdf: the page as pdf.getPage gave it
    operators,                   \* parseCells: the operator list of the page
    lines,                       \* parseCells: the rectangles committed so far
    previousRectangle,           \* parseCells: the rectangle awaiting a fill
    transformStack,              \* parseCells: the saved transforms
    transform,                   \* parseCells: the current transform
    mainPc,                      \* main: position of the main program
    pdfUrls,                     \* main: the links found on the page
    selectedPdfUrls,             \* main: the documents chosen for parsing
    urlIndex,                    \* main: place in the loop over the documents
    insertIndex,                 \* main: place in the loop over the records
    inserting,                   \* insertRow: the statements not yet completed
    database                     \* the rows of the table [data]

headingVars == <<receivedDateHeadingElement, lotNumberHeadingElement,
                 houseNumberHeadingElement, streetNameHeadingElement,
                 planHeadingElement, suburbNameHeadingElement,
                 descriptionHeadingElement>>

columnVars == <<leftmostElements, index, headingVars>>

gridVars == <<cells, rows, gridHeadingCells>>

callVars == <<arg, ret>>

parseCellsVars == <<operators, lines, previousRectangle, transformStack, transform>>

mainVars == <<mainPc, pdfUrls, selectedPdfUrls, urlIndex, insertIndex, inserting,
              database>>

vars == <<pc, pageIndex, elements, columnVars, developmentApplications,
          returned, gridVars, callVars, page, parseCellsVars, mainVars>>

-----------------------------------------------------------------------------
(* Strings                                                                 *)

Digits == {"0","1","2","3","4","5","6","7","8","9"}

IndexIn(c, letters) ==
    IF \E i \in 1..Len(letters) : letters[i] = c
    THEN CHOOSE i \in 1..Len(letters) : letters[i] = c
    ELSE 0

UpperOf ==
    "a" :> "A" @@ "b" :> "B" @@ "c" :> "C" @@ "d" :> "D" @@ "e" :> "E" @@ "f" :> "F"
    @@ "g" :> "G" @@ "h" :> "H" @@ "i" :> "I" @@ "j" :> "J" @@ "k" :> "K" @@ "l" :> "L"
    @@ "m" :> "M" @@ "n" :> "N" @@ "o" :> "O" @@ "p" :> "P" @@ "q" :> "Q" @@ "r" :> "R"
    @@ "s" :> "S" @@ "t" :> "T" @@ "u" :> "U" @@ "v" :> "V" @@ "w" :> "W" @@ "x" :> "X"
    @@ "y" :> "Y" @@ "z" :> "Z"

LowerOf ==
    "A" :> "a" @@ "B" :> "b" @@ "C" :> "c" @@ "D" :> "d" @@ "E" :> "e" @@ "F" :> "f"
    @@ "G" :> "g" @@ "H" :> "h" @@ "I" :> "i" @@ "J" :> "j" @@ "K" :> "k" @@ "L" :> "l"
    @@ "M" :> "m" @@ "N" :> "n" @@ "O" :> "o" @@ "P" :> "p" @@ "Q" :> "q" @@ "R" :> "r"
    @@ "S" :> "s" @@ "T" :> "t" @@ "U" :> "u" @@ "V" :> "v" @@ "W" :> "w" @@ "X" :> "x"
    @@ "Y" :> "y" @@ "Z" :> "z"

LowerSet == DOMAIN UpperOf

UpperSet == DOMAIN LowerOf

UpperChar(c) == IF c \in LowerSet THEN UpperOf[c] ELSE c

LowerChar(c) == IF c \in UpperSet THEN LowerOf[c] ELSE c

\* A function on 1..n as the sequence of its values (computed once, here)
asSequence(f) == f \o <<>>

toUpperCase(s) == asSequence([i \in 1..Len(s) |-> UpperChar(s[i])])

toLowerCase(s) == asSequence([i \in 1..Len(s) |-> LowerChar(s[i])])

IsSpace(c) == c = " "

IsDigit(c) == c \in Digits

\* s.replace(/\s/g, "") and s.replace(/[^A-Z]/g, "")
removeWhitespace(s) == SelectSeq(s, LAMBDA c : ~IsSpace(c))

keepUpperLetters(s) == SelectSeq(s, LAMBDA c : c \in UpperSet)

Min2(a, b) == IF a <= b THEN a ELSE b

Max2(a, b) == IF a >= b THEN a ELSE b

Least(S) == CHOOSE x \in S : \A y \in S : x <= y

Greatest(S) == CHOOSE x \in S : \A y \in S : x >= y

\* The k-th smallest member of a set of numbers, and 0 and `beyond` at its two ends
kth(S, k, beyond) ==
    IF k = 0 THEN 0
    ELSE IF k > Cardinality(S) THEN beyond
         ELSE CHOOSE i \in S : Cardinality({j \in S : j < i}) = k - 1

\* The characters of s at the positions `keep`, in order
selectAt(s, keep) == asSequence([k \in 1..Cardinality(keep) |-> s[kth(keep, k, 0)]])

trim(s) ==
    LET inked == {i \in 1..Len(s) : ~IsSpace(s[i])}
    IN IF inked = {} THEN <<>> ELSE SubSeq(s, Least(inked), Greatest(inked))

\* s.replace(/\s\s+/g, " "): every run of two or more spaces becomes one space
collapseSpaces(s) ==
    selectAt(s, {i \in 1..Len(s) : ~(IsSpace(s[i]) /\ i < Len(s) /\ IsSpace(s[i + 1]))})

RECURSIVE join(_, _)
join(parts, sep) ==
    IF parts = <<>> THEN <<>>
    ELSE IF Len(parts) = 1 THEN parts[1]
         ELSE parts[1] \o sep \o join(Tail(parts), sep)

\* s.split(c) for a one-character separator: always at least one part
split(s, c) ==
    LET at == {i \in 1..Len(s) : s[i] = c}
    IN asSequence([k \in 1..(Cardinality(at) + 1) |->
                      SubSeq(s, kth(at, k - 1, 0) + 1, kth(at, k, Len(s) + 1) - 1)])

startsWith(s, p) == Len(s) >= Len(p) /\ SubSeq(s, 1, Len(p)) = p

\* s.lastIndexOf(c), zero-based, -1 when absent
lastIndexOf(s, c) ==
    LET at == {i \in 1..Len(s) : s[i] = c}
    IN IF at = {} THEN -1 ELSE Greatest(at) - 1

\* s.replace(/p/g, r) for a literal pattern p: the matches from left to right
replaceAll(s, p, r) ==
    LET RECURSIVE replaceFrom(_)
        replaceFrom(from) ==
            LET found == {i \in from..(Len(s) - Len(p) + 1) :
                             SubSeq(s, i, i + Len(p) - 1) = p}
            IN IF found = {} THEN SubSeq(s, from, Len(s))
               ELSE SubSeq(s, from, Least(found) - 1) \o r
                        \o replaceFrom(Least(found) + Len(p))
    IN replaceFrom(1)

\* Levenshtein distance, one row of the table for each character of a.  An entry is
\* the least of what its left neighbours allow, so a row needs only the row before;
\* the test on Len makes a row a sequence before the next one is built from it.
editDistance(a, b) ==
    LET n == Len(b)
        RECURSIVE Step(_, _)
        Step(i, prev) ==
            IF i > Len(a) THEN prev[n + 1]
            ELSE LET base == <<i>> \o [k \in 1..n |->
                                 Min2(prev[k + 1] + 1,
                                      prev[k] + (IF a[i] = b[k] THEN 0 ELSE 1))]
                     row == asSequence([j \in 1..(n + 1) |->
                                Least({base[k] + (j - k) : k \in 1..j})])
                 IN IF Len(row) = n + 1 THEN Step(i + 1, row) ELSE -1
    IN Step(1, asSequence([j \in 1..(n + 1) |-> j - 1]))

Null == <<"null">>

\* didYouMean(input, matchList, {caseSensitive: false, FIRST_CLOSEST_MATCH,
\*            EDIT_DISTANCE, threshold, trimSpaces: true})
didYouMean(input, matchList, threshold) ==
    LET normalizeString(s) == toLowerCase(collapseSpaces(trim(s)))
        inp == normalizeString(input)
        score == asSequence([i \in 1..Len(matchList) |->
                     editDistance(inp, normalizeString(matchList[i]))])
        ok == {i \in 1..Len(matchList) :
                  /\ score[i] <= threshold
                  /\ \A j \in 1..Len(matchList) : score[i] <= score[j]}
    IN IF ok = {} THEN Null
       ELSE matchList[CHOOSE i \in ok : \A j \in ok : i <= j]

-----------------------------------------------------------------------------
(* Address information (readAddressInformation): the three dictionaries.   *)
(* Each is a sequence of [key, value] entries in insertion order, the order *)
(* Object.keys returns.                                                     *)

wBAY == <<"B","A","Y">>

wRD == <<"R","D">>

wROAD == <<"R","O","A","D">>

wTULKA == <<"T","U","L","K","A">>

wTCE == <<"T","C","E">>

wTERRACE == <<"T","E","R","R","A","C","E">>

SP == <<" ">>

COMMA == <<",">>

StreetNames == << [key |-> wBAY \o SP \o wROAD, value |-> <<wTULKA>>] >>

StreetSuffixes == << [key |-> wRD, value |-> wROAD] >>

SuburbNames ==
    << [key |-> wTULKA,
        value |-> wTULKA \o SP \o <<"S","A">> \o SP \o <<"5","6","0","7">>] >>

keys(dict) == asSequence([i \in 1..Len(dict) |-> dict[i].key])

has(dict, k) == \E i \in 1..Len(dict) : dict[i].key = k

\* dict[k] for a key the dictionary has (a later entry for a key replaces an earlier)
lookup(dict, k) ==
    dict[CHOOSE i \in 1..Len(dict) :
            dict[i].key = k /\ \A j \in (i+1)..Len(dict) : dict[j].key # k].value

\* tokens.slice(-n)
sliceLast(tokens, n) ==
    IF n >= Len(tokens) THEN tokens
    ELSE SubSeq(tokens, Len(tokens) - n + 1, Len(tokens))

\* tokens after tokens.splice(-n, n)
dropLast(tokens, n) ==
    IF n >= Len(tokens) THEN <<>> ELSE SubSeq(tokens, 1, Len(tokens) - n)

WindowSizes == <<6, 5, 4, 3, 2>>

\* formatStreetName with the loop that allows spelling errors before the exact one
formatStreetNameFuzzyFirst(text) ==
    LET raw == split(toUpperCase(trim(text)), " ")
        token == raw[Len(raw)]
        tokens == Append(SubSeq(raw, 1, Len(raw) - 1),
                         IF has(StreetSuffixes, token)
                         THEN lookup(StreetSuffixes, token) ELSE token)
        exact == {w \in 1..Len(WindowSizes) :
                     has(StreetNames, join(sliceLast(tokens, WindowSizes[w]), SP))}
        match == [w \in 1..Len(WindowSizes) |->
                     didYouMean(join(sliceLast(tokens, WindowSizes[w]), SP),
                                keys(StreetNames), 7 - WindowSizes[w])]
        fuzzy == {w \in 1..Len(WindowSizes) : match[w] # Null}
    IN IF fuzzy # {}
       THEN trim(join(dropLast(tokens, WindowSizes[Least(fuzzy)]), SP)
                 \o SP \o match[Least(fuzzy)])
       ELSE IF exact # {} THEN join(tokens, SP) ELSE text

\* formatStreetName with the spelling loop running from 2 up to 6
formatStreetNameSmallestWindow(text) ==
    LET raw == split(toUpperCase(trim(text)), " ")
        token == raw[Len(raw)]
        tokens == Append(SubSeq(raw, 1, Len(raw) - 1),
                         IF has(StreetSuffixes, token)
                         THEN lookup(StreetSuffixes, token) ELSE token)
        exact == {w \in 1..Len(WindowSizes) :
                     has(StreetNames, join(sliceLast(tokens, WindowSizes[w]), SP))}
        match == [w \in 1..Len(WindowSizes) |->
                     didYouMean(join(sliceLast(tokens, WindowSizes[w]), SP),
                                keys(StreetNames), 7 - WindowSizes[w])]
        fuzzy == {w \in 1..Len(WindowSizes) : match[w] # Null}
    IN IF exact # {} THEN join(tokens, SP)
       ELSE IF fuzzy # {}
            THEN trim(join(dropLast(tokens, WindowSizes[Greatest(fuzzy)]), SP)
                      \o SP \o match[Greatest(fuzzy)])
            ELSE text

formatStreetName(text) ==
    LET raw == split(toUpperCase(trim(text)), " ")
        token == raw[Len(raw)]
        tokens == Append(SubSeq(raw, 1, Len(raw) - 1),
                         IF has(StreetSuffixes, token)
                         THEN lookup(StreetSuffixes, token) ELSE token)
        exact == {w \in 1..Len(WindowSizes) :
                     has(StreetNames, join(sliceLast(tokens, WindowSizes[w]), SP))}
        match == [w \in 1..Len(WindowSizes) |->
                     didYouMean(join(sliceLast(tokens, WindowSizes[w]), SP),
                                keys(StreetNames), 7 - WindowSizes[w])]
        fuzzy == {w \in 1..Len(WindowSizes) : match[w] # Null}
    IN IF exact # {} THEN join(tokens, SP)
       ELSE IF fuzzy # {}
            THEN trim(join(dropLast(tokens, WindowSizes[Least(fuzzy)]), SP)
                      \o SP \o match[Least(fuzzy)])
            ELSE text

\* The special cases of formatAddress: " TCE NTH" and the like
terraceSubstitutions(address) ==
    LET nth == replaceAll(address, SP \o wTCE \o SP \o <<"N","T","H">>,
                          SP \o wTERRACE \o SP \o <<"N","O","R","T","H">>)
        sth == replaceAll(nth, SP \o wTCE \o SP \o <<"S","T","H">>,
                          SP \o wTERRACE \o SP \o <<"S","O","U","T","H">>)
        east == replaceAll(sth, SP \o wTCE \o SP \o <<"E","A","S","T">>,
                           SP \o wTERRACE \o SP \o <<"E","A","S","T">>)
    IN replaceAll(east, SP \o wTCE \o SP \o <<"W","E","S","T">>,
                  SP \o wTERRACE \o SP \o <<"W","E","S","T">>)

formatAddressUntrimmed(address) ==
    LET a == terraceSubstitutions(trim(address))
        commaIndex == lastIndexOf(a, ",")
        streetName == SubSeq(a, 1, commaIndex)
        suburbName == didYouMean(SubSeq(a, commaIndex + 2, Len(a)), keys(SuburbNames), 2)
    IN IF commaIndex < 0 THEN address
       ELSE IF suburbName = Null THEN address
            ELSE formatStreetName(streetName) \o COMMA \o SP
                     \o lookup(SuburbNames, suburbName)

\* formatAddress joining the matched key where the code joins SuburbNames[suburbName]
formatAddressSuburbKey(address) ==
    LET a == terraceSubstitutions(trim(address))
        commaIndex == lastIndexOf(a, ",")
        streetName == SubSeq(a, 1, commaIndex)
        suburbName == didYouMean(SubSeq(a, commaIndex + 2, Len(a)), keys(SuburbNames), 2)
    IN IF commaIndex < 0 THEN a
       ELSE IF suburbName = Null THEN a
            ELSE formatStreetName(streetName) \o COMMA \o SP \o suburbName

formatAddress(address) ==
    LET a == terraceSubstitutions(trim(address))
        commaIndex == lastIndexOf(a, ",")
        streetName == SubSeq(a, 1, commaIndex)
        suburbName == didYouMean(SubSeq(a, commaIndex + 2, Len(a)), keys(SuburbNames), 2)
    IN IF commaIndex < 0 THEN a
       ELSE IF suburbName = Null THEN a
            ELSE formatStreetName(streetName) \o COMMA \o SP
                     \o lookup(SuburbNames, suburbName)

-----------------------------------------------------------------------------
(* Rectangles, elements and the horizontal overlap                         *)

\* The value of an unset JavaScript variable, in the shape of an element
undefined == [text |-> <<"undefined">>, x |-> 0, y |-> 0, width |-> -1, height |-> -1]

\* The heading cells of the grid mode when none is found
NoHeadingCells ==
    [applicationNumber |-> undefined, receivedDate |-> undefined,
     legalDescription |-> undefined, streetName |-> undefined,
     suburbName |-> undefined, description |-> undefined]

\* The value of `page` while no page is in hand
NoPage == <<>>

\* [1, 0, 0, 1, 0, 0]
IdentityTransform == <<1, 0, 0, 1, 0, 0>>

\* parseCells is not running
ParseCellsIdle ==
    /\ operators = <<>>
    /\ lines = <<>>
    /\ previousRectangle = undefined
    /\ transformStack = <<>>
    /\ transform = IdentityTransform

\* main is not running
MainIdle ==
    /\ mainPc = "idle"
    /\ pdfUrls = <<>>
    /\ selectedPdfUrls = <<>>
    /\ urlIndex = 0
    /\ insertIndex = 0
    /\ inserting = <<>>
    /\ database = <<>>

Element(text, x, y, width, height) ==
    [text |-> text, x |-> x, y |-> y, width |-> width, height |-> height]

Fraction(n, d) == [num |-> n, den |-> d]

\* p > k for a fraction p with a positive denominator
greaterThan(p, k) == p.num > k * p.den

\* getHorizontalOverlapPercentage dividing by the two widths together instead of
\* the width of the union
getHorizontalOverlapPercentageOfWidths(rectangle1, rectangle2) ==
    IF rectangle1 = undefined \/ rectangle2 = undefined THEN Fraction(0, 1)
    ELSE LET startX1 == rectangle1.x
             endX1 == rectangle1.x + rectangle1.width
             startX2 == rectangle2.x
             endX2 == rectangle2.x + rectangle2.width
             intersectionWidth == Min2(endX1, endX2) - Max2(startX1, startX2)
         IN IF \/ startX1 >= endX2 \/ endX1 <= startX2
               \/ rectangle1.width = 0 \/ rectangle2.width = 0
            THEN Fraction(0, 1)
            ELSE Fraction(intersectionWidth * 100, rectangle1.width + rectangle2.width)

getHorizontalOverlapPercentage(rectangle1, rectangle2) ==
    IF rectangle1 = undefined \/ rectangle2 = undefined THEN Fraction(0, 1)
    ELSE LET startX1 == rectangle1.x
             endX1 == rectangle1.x + rectangle1.width
             startX2 == rectangle2.x
             endX2 == rectangle2.x + rectangle2.width
             intersectionWidth == Min2(endX1, endX2) - Max2(startX1, startX2)
             unionWidth == Max2(endX1, endX2) - Min2(startX1, startX2)
         IN IF \/ startX1 >= endX2 \/ endX1 <= startX2
               \/ rectangle1.width = 0 \/ rectangle2.width = 0
            THEN Fraction(0, 1)
            ELSE Fraction(intersectionWidth * 100, unionWidth)

\* Array.prototype.sort for a comparer returning -1, 0 or 1 that orders the array
\* consistently: the sort is stable, so an element's place is the number of elements
\* that compare before it or compare equal and stand before it
sort(seq, compare(_, _)) ==
    LET n == Len(seq)
        before == asSequence([i \in 1..n |->
                      Cardinality({j \in 1..n :
                          \/ compare(seq[j], seq[i]) < 0
                          \/ (compare(seq[j], seq[i]) = 0 /\ j < i)})])
    IN asSequence([k \in 1..n |-> seq[CHOOSE i \in 1..n : before[i] = k - 1]])

Abs(n) == IF n < 0 THEN -n ELSE n

\* array.find(test): the first element that passes, or undefined
find(seq, test(_)) ==
    IF \E i \in 1..Len(seq) : test(seq[i])
    THEN seq[CHOOSE i \in 1..Len(seq) : test(seq[i]) /\ \A j \in 1..(i-1) : ~test(seq[j])]
    ELSE undefined

\* elements.map(element => element.text).join(" ").replace(/\s\s+/g, " ").trim()
joinedText(elems) ==
    trim(collapseSpaces(join(asSequence([i \in 1..Len(elems) |-> elems[i].text]), SP)))

-----------------------------------------------------------------------------
(* moment(text, format, true): strict parsing, formatted as YYYY-MM-DD     *)

DigitChars == <<"0","1","2","3","4","5","6","7","8","9">>

isDigits(s) == s # <<>> /\ \A i \in 1..Len(s) : IsDigit(s[i])

RECURSIVE toNumber(_)
toNumber(s) == IF s = <<>> THEN 0
               ELSE 10 * toNumber(SubSeq(s, 1, Len(s) - 1))
                        + (IndexIn(s[Len(s)], DigitChars) - 1)

MonthsShort == << <<"j","a","n">>, <<"f","e","b">>, <<"m","a","r">>, <<"a","p","r">>,
                  <<"m","a","y">>, <<"j","u","n">>, <<"j","u","l">>, <<"a","u","g">>,
                  <<"s","e","p">>, <<"o","c","t">>, <<"n","o","v">>, <<"d","e","c">> >>

daysInMonth(y, m) ==
    IF m = 2 THEN (IF (y % 4 = 0 /\ y % 100 # 0) \/ y % 400 = 0 THEN 29 ELSE 28)
    ELSE IF m \in {4, 6, 9, 11} THEN 30 ELSE 31

formatDate(y, m, d) ==
    LET twoDigits(n) == <<DigitChars[(n \div 10) + 1], DigitChars[(n % 10) + 1]>>
    IN twoDigits(y \div 100) \o twoDigits(y % 100) \o <<"-">> \o twoDigits(m)
           \o <<"-">> \o twoDigits(d)

\* The result of receivedDate.isValid() ? receivedDate.format("YYYY-MM-DD") : ""
\* for moment(text, "D-MMM-YY", true)
parseDateDMMMYY(text) ==
    LET parts == split(text, "-")
        d == toNumber(parts[1])
        m == IndexIn(toLowerCase(parts[2]), MonthsShort)
        yy == toNumber(parts[3])
        y == IF yy > 68 THEN 1900 + yy ELSE 2000 + yy
    IN IF /\ Len(parts) = 3
          /\ isDigits(parts[1]) /\ Len(parts[1]) <= 2
          /\ m # 0
          /\ isDigits(parts[3]) /\ Len(parts[3]) = 2
          /\ d >= 1 /\ d <= daysInMonth(y, m)
       THEN formatDate(y, m, d)
       ELSE <<>>

\* The same for moment(text, "D/MM/YYYY", true)
parseDateDMMYYYY(text) ==
    LET parts == split(text, "/")
        d == toNumber(parts[1])
        m == toNumber(parts[2])
        y == toNumber(parts[3])
    IN IF /\ Len(parts) = 3
          /\ isDigits(parts[1]) /\ Len(parts[1]) <= 2
          /\ isDigits(parts[2]) /\ Len(parts[2]) = 2
          /\ isDigits(parts[3]) /\ Len(parts[3]) = 4
          /\ m >= 1 /\ m <= 12
          /\ d >= 1 /\ d <= daysInMonth(y, m)
       THEN formatDate(y, m, d)
       ELSE <<>>

-----------------------------------------------------------------------------
(* Column mode (src/scraper.ts): parsePdf                                  *)

wHD == <<"H","D"," ">>

\* s.replace(/^HD /i, "")
stripHundredPrefix(s) ==
    IF Len(s) >= 3 /\ toUpperCase(SubSeq(s, 1, 3)) = wHD
    THEN SubSeq(s, 4, Len(s)) ELSE s

\* The suburb name and the hundred name of the text under the suburb heading
splitSuburbName(text) ==
    LET suburbNameTokens == split(text, "/")
        two == Len(suburbNameTokens) = 2
        second == two /\ startsWith(trim(suburbNameTokens[2]), wHD)
        hundredName == IF ~two THEN <<>>
                       ELSE IF second THEN trim(suburbNameTokens[2])
                            ELSE trim(suburbNameTokens[1])
        suburbName == IF ~two THEN text
                      ELSE IF second THEN trim(suburbNameTokens[1])
                           ELSE trim(suburbNameTokens[2])
    IN [hundredName |-> stripHundredPrefix(hundredName),
        suburbName |-> stripHundredPrefix(suburbName)]

NoDescriptionProvided ==
    <<"N","o"," ","D","e","s","c","r","i","p","t","i","o","n"," ",
      "P","r","o","v","i","d","e","d">>

CommentUrl ==
    <<"m","a","i","l","t","o",":","m","a","i","l","@","d","c","l","e","p",".","s","a",".",
      "g","o","v",".","a","u">>

Url == <<"u","r","l">>

ScrapeDate == <<"2","0","1","9","-","0","2","-","2","7">>

\* element.y = -(element.y + element.height)
invertY(element) == [element EXCEPT !.y = -(element.y + element.height)]

elementComparer(a, b) ==
    IF Abs(a.y - b.y) < 1
    THEN (IF a.x > b.x THEN 1 ELSE IF a.x < b.x THEN -1 ELSE 0)
    ELSE (IF a.y > b.y THEN 1 ELSE -1)

yComparer(a, b) == IF a.y > b.y THEN 1 ELSE IF a.y < b.y THEN -1 ELSE 0

\* elements.reduce(...): the first element of the least x
leftmostOf(elems) ==
    elems[CHOOSE i \in 1..Len(elems) :
             /\ \A j \in 1..Len(elems) : elems[i].x <= elems[j].x
             /\ \A j \in 1..(i-1) : elems[j].x > elems[i].x]

anchorsOf(elems) ==
    IF elems = <<>> THEN <<>>
    ELSE LET leftmostElement == leftmostOf(elems)
         IN sort(SelectSeq(elems, LAMBDA e : Abs(e.x - leftmostElement.x) < 20), yComparer)

\* The row filter with "<" for "<=" at the anchor's own line
rowOfAnchorStrict(elems, anchors, i) ==
    SelectSeq(elems, LAMBDA e : /\ e.y < anchors[i + 1].y
                                /\ (i = 0 \/ e.y > anchors[i].y))

\* The row filter without the test against the anchor before
rowOfAnchorUnbounded(elems, anchors, i) ==
    SelectSeq(elems, LAMBDA e : e.y <= anchors[i + 1].y)

\* The row of anchor i (zero-based, as in the source)
rowOfAnchor(elems, anchors, i) ==
    SelectSeq(elems, LAMBDA e : /\ e.y <= anchors[i + 1].y
                                /\ (i = 0 \/ e.y > anchors[i].y))

headingKey(element) == keepUpperLetters(toUpperCase(element.text))

findHeading(row, key) == find(row, LAMBDA e : headingKey(e) = key)

overlapping(row, heading) ==
    SelectSeq(row, LAMBDA e : greaterThan(getHorizontalOverlapPercentage(heading, e), 0))

\* The values a row yields under the headings in force
extractRow(row, anchor, h) ==
    LET lotNumber == joinedText(overlapping(row, h.lotNumber))
        houseNumber == joinedText(overlapping(row, h.houseNumber))
        streetName == joinedText(overlapping(row, h.streetName))
        plan == joinedText(overlapping(row, h.plan))
        names == splitSuburbName(joinedText(overlapping(row, h.suburbName)))
        description == joinedText(overlapping(row, h.description))
        legalDescriptionItems ==
            (IF lotNumber # <<>> THEN << <<"L","o","t"," ">> \o lotNumber >> ELSE <<>>)
            \o (IF plan # <<>> THEN << <<"P","l","a","n"," ">> \o plan >> ELSE <<>>)
            \o (IF names.hundredName # <<>>
                THEN << <<"H","u","n","d","r","e","d"," ">> \o names.hundredName >>
                ELSE <<>>)
    IN [applicationNumber |-> trim(removeWhitespace(anchor.text)),
        receivedDate |-> parseDateDMMMYY(joinedText(overlapping(row, h.receivedDate))),
        address |-> formatAddress(
            IF streetName # <<>> /\ names.suburbName # <<>>
            THEN toUpperCase(houseNumber \o SP \o streetName \o COMMA \o SP
                                 \o names.suburbName)
            ELSE <<>>),
        description |-> IF description = <<>> THEN NoDescriptionProvided ELSE description,
        legalDescription |-> join(legalDescriptionItems, COMMA \o SP)]

newApplication(applicationNumber) ==
    [applicationNumber |-> applicationNumber,
     address |-> <<>>,
     description |-> NoDescriptionProvided,
     informationUrl |-> Url,
     commentUrl |-> CommentUrl,
     scrapeDate |-> ScrapeDate,
     receivedDate |-> <<>>,
     legalDescription |-> <<>>]

\* The position of developmentApplications[applicationNumber], 0 when undefined
positionOf(applications, applicationNumber) ==
    IF \E i \in 1..Len(applications) : applications[i].applicationNumber = applicationNumber
    THEN CHOOSE i \in 1..Len(applications) :
             applications[i].applicationNumber = applicationNumber
    ELSE 0

\* The assignments to the record's fields, each under its heading condition
assignFields(developmentApplication, values, h) ==
    [developmentApplication EXCEPT
        !.receivedDate = IF h.receivedDate # undefined THEN values.receivedDate ELSE @,
        !.address = IF \/ h.houseNumber # undefined \/ h.streetName # undefined
                        \/ h.suburbName # undefined
                    THEN values.address ELSE @,
        !.legalDescription = IF \/ h.lotNumber # undefined \/ h.plan # undefined
                                 \/ h.suburbName # undefined
                             THEN values.legalDescription ELSE @,
        !.description = IF h.description # undefined /\ values.description # <<>>
                        THEN values.description ELSE @]

\* A fold that creates a record for every row, whatever its number
foldRowAppending(applications, values, h) ==
    Append(applications, assignFields(newApplication(values.applicationNumber), values, h))

\* developmentApplications after one application row
foldRow(applications, values, h) ==
    LET at == positionOf(applications, values.applicationNumber)
    IN IF at = 0
       THEN Append(applications,
                   assignFields(newApplication(values.applicationNumber), values, h))
       ELSE [applications EXCEPT ![at] = assignFields(@, values, h)]

\* A filter that tests the application number only
filterNumbersOnly(applications) ==
    SelectSeq(applications, LAMBDA d : d.applicationNumber # <<>>)

\* The records parsePdf returns
filterApplications(applications) ==
    SelectSeq(applications, LAMBDA d : d.applicationNumber # <<>> /\ d.address # <<>>)

-----------------------------------------------------------------------------
(* The documents the column-mode parser is run on: every page is a heading  *)
(* row or none, followed by at most MaxRows application lines.  A line is   *)
(* an application number with all its fields, with a continued description, *)
(* or with a second text run in the first column.  Text runs are given in   *)
(* PDF co-ordinates (y grows upwards), the later line first.                *)

MaxPages == 2

MaxRows == 1

tDevNo == <<"D","e","v"," ","N","o",".">>

tDescription == <<"D","E","S","C","R","I","P","T","I","O","N"," ","O","F"," ",
                  "D","E","V","E","L","O","P","M","E","N","T">>

tAppA == <<"3","7","1","/","1">>

tShed == <<"S","H","E","D">>

tMore == <<"N","E","W">>

lineY(line) == 100 - 10 * line

textRun(text, x, line) == Element(text, x, lineY(line), 8, 1)

headingRuns(kind) ==
    IF kind = "none" THEN <<>>
    ELSE IF kind = "full"
         THEN << textRun(tDevNo, 0, 0),
                 textRun(<<"L","O","D","G","E","D">>, 30, 0),
                 textRun(<<"L","O","T"," ","N","O">>, 60, 0),
                 textRun(<<"S","T"," ","N","O">>, 90, 0),
                 textRun(<<"S","T"," ","N","A","M","E">>, 120, 0),
                 textRun(<<"F","P","/","D","P">>, 150, 0),
                 textRun(<<"S","U","B","U","R","B","/","H","D"," ","O","F">>, 180, 0),
                 textRun(tDescription, 210, 0) >>
         ELSE << textRun(tDevNo, 0, 0), Element(tDescription, 30, lineY(0), 100, 1) >>

FieldRuns == << [tag |-> "second", text |-> tMore, x |-> 10],
                [tag |-> "date", text |-> <<"5","-","M","a","r","-","1","9">>, x |-> 30],
                [tag |-> "more", text |-> tMore, x |-> 40],
                [tag |-> "lot", text |-> <<"7">>, x |-> 60],
                [tag |-> "house", text |-> <<"1">>, x |-> 90],
                [tag |-> "street", text |-> wBAY \o SP \o wRD, x |-> 120],
                [tag |-> "plan", text |-> <<"D","9">>, x |-> 150],
                [tag |-> "suburb", text |-> wTULKA, x |-> 180],
                [tag |-> "desc", text |-> tShed, x |-> 210] >>

FullRow == {"date", "lot", "house", "street", "plan", "suburb", "desc"}

RowSpecs == { [app |-> tAppA, tags |-> FullRow],
              [app |-> tAppA, tags |-> {"more"}],
              [app |-> tAppA, tags |-> {"second"}],
              [app |-> <<"3","7","1","/"," ","2">>, tags |-> FullRow],
              [app |-> <<" ">>, tags |-> FullRow] }

rowRuns(spec, line) ==
    LET picked == SelectSeq(FieldRuns, LAMBDA f : f.tag \in spec.tags)
    IN <<textRun(spec.app, 0, line)>>
       \o asSequence([i \in 1..Len(picked) |-> textRun(picked[i].text, picked[i].x, line)])

RECURSIVE rowsRuns(_, _)
rowsRuns(specs, line) ==
    IF specs = <<>> THEN <<>>
    ELSE rowsRuns(Tail(specs), line + 1) \o rowRuns(Head(specs), line)

ColumnPages ==
    { [heading |-> k, rows |-> r] :
        k \in {"none", "full", "continuation"},
        r \in UNION {[1..n -> RowSpecs] : n \in 0..MaxRows} }
    \cup { [heading |-> k, rows |-> <<[app |-> tAppA, tags |-> FullRow]>>] :
               k \in {"below", "footer"} }

\* parseElements(page): the text runs of the page.  The heading row stands above the
\* rows, or below them, or above them with a line of text under the last row that
\* has nothing in the first column
parseElements(layout) ==
    rowsRuns(layout.rows, 1)
    \o (IF layout.heading = "below"
        THEN << textRun(tDevNo, 0, Len(layout.rows) + 1),
                textRun(<<"L","O","D","G","E","D">>, 60, Len(layout.rows) + 1) >>
        ELSE IF layout.heading = "footer"
             THEN headingRuns("full") \o << textRun(tMore, 120, Len(layout.rows) + 1) >>
             ELSE headingRuns(layout.heading))

\* preparePage sorting the elements before their y is inverted
preparePageSortedFirst(raw) ==
    LET early == sort(raw, elementComparer)
        sorted == asSequence([i \in 1..Len(early) |-> invertY(early[i])])
    IN [page |-> raw, elements |-> sorted, leftmostElements |-> anchorsOf(sorted)]

\* A page after the inversion of y and the sort of its elements, with its anchors
preparePage(raw) ==
    LET sorted == sort(asSequence([i \in 1..Len(raw) |-> invertY(raw[i])]), elementComparer)
    IN [page |-> raw, elements |-> sorted, leftmostElements |-> anchorsOf(sorted)]

PreparedColumnPages == {preparePage(parseElements(layout)) : layout \in ColumnPages}

-----------------------------------------------------------------------------
(* parsePdf of the column mode, one step for each page fetched and each     *)
(* anchor row handled                                                       *)

currentHeadings ==
    [receivedDate |-> receivedDateHeadingElement,
     lotNumber |-> lotNumberHeadingElement,
     houseNumber |-> houseNumberHeadingElement,
     streetName |-> streetNameHeadingElement,
     plan |-> planHeadingElement,
     suburbName |-> suburbNameHeadingElement,
     description |-> descriptionHeadingElement]

ColumnInit ==
    /\ pc = "getPage"
    /\ pageIndex = 0
    /\ elements = <<>>
    /\ leftmostElements = <<>>
    /\ index = 0
    /\ receivedDateHeadingElement = undefined
    /\ lotNumberHeadingElement = undefined
    /\ houseNumberHeadingElement = undefined
    /\ streetNameHeadingElement = undefined
    /\ planHeadingElement = undefined
    /\ suburbNameHeadingElement = undefined
    /\ descriptionHeadingElement = undefined
    /\ developmentApplications = <<>>
    /\ returned = <<>>
    /\ cells = <<>>
    /\ rows = <<>>
    /\ gridHeadingCells = NoHeadingCells
    /\ arg = <<>>
    /\ ret = <<>>
    /\ page = NoPage
    /\ ParseCellsIdle
    /\ MainIdle

\* pdf.getPage, parseElements, the inversion of y, the sort and the anchors
GetPage ==
    /\ pc = "getPage"
    /\ pageIndex < MaxPages
    /\ \E prepared \in PreparedColumnPages :
          /\ page' = prepared.page
          /\ elements' = prepared.elements
          /\ leftmostElements' = prepared.leftmostElements
    /\ index' = 0
    /\ pc' = "rows"
    /\ UNCHANGED <<pageIndex, headingVars, developmentApplications, returned,
                   gridVars, callVars>>
    /\ UNCHANGED <<parseCellsVars, mainVars>>

\* HeadingRow leaving a heading as it was when the row has no element for it
HeadingRowKeepingMissing ==
    /\ pc = "rows"
    /\ index < Len(leftmostElements)
    /\ index = 0 /\ headingKey(leftmostElements[index + 1]) = <<"D","E","V","N","O">>
    /\ LET row == rowOfAnchor(elements, leftmostElements, index)
           kept(found, old) == IF found = undefined THEN old ELSE found
       IN /\ receivedDateHeadingElement' =
                 kept(findHeading(row, <<"L","O","D","G","E","D">>),
                      receivedDateHeadingElement)
          /\ lotNumberHeadingElement' =
                 kept(findHeading(row, <<"L","O","T","N","O">>), lotNumberHeadingElement)
          /\ houseNumberHeadingElement' =
                 kept(findHeading(row, <<"S","T","N","O">>), houseNumberHeadingElement)
          /\ streetNameHeadingElement' =
                 kept(findHeading(row, <<"S","T","N","A","M","E">>),
                      streetNameHeadingElement)
          /\ planHeadingElement' =
                 kept(findHeading(row, <<"F","P","D","P">>), planHeadingElement)
          /\ suburbNameHeadingElement' =
                 kept(findHeading(row, <<"S","U","B","U","R","B","H","D","O","F">>),
                      suburbNameHeadingElement)
          /\ descriptionHeadingElement' =
                 kept(findHeading(row, keepUpperLetters(tDescription)),
                      descriptionHeadingElement)
    /\ index' = index + 1
    /\ UNCHANGED <<pc, pageIndex, elements, leftmostElements, developmentApplications,
                   returned, gridVars, callVars>>
    /\ UNCHANGED <<page, parseCellsVars, mainVars>>

\* An anchor row that is the first of its page and reads "DEVNO"
HeadingRow ==
    /\ pc = "rows"
    /\ index < Len(leftmostElements)
    /\ index = 0 /\ headingKey(leftmostElements[index + 1]) = <<"D","E","V","N","O">>
    /\ LET row == rowOfAnchor(elements, leftmostElements, index)
       IN /\ receivedDateHeadingElement' = findHeading(row, <<"L","O","D","G","E","D">>)
          /\ lotNumberHeadingElement' = findHeading(row, <<"L","O","T","N","O">>)
          /\ houseNumberHeadingElement' = findHeading(row, <<"S","T","N","O">>)
          /\ streetNameHeadingElement' = findHeading(row, <<"S","T","N","A","M","E">>)
          /\ planHeadingElement' = findHeading(row, <<"F","P","D","P">>)
          /\ suburbNameHeadingElement' =
                 findHeading(row, <<"S","U","B","U","R","B","H","D","O","F">>)
          /\ descriptionHeadingElement' =
                 findHeading(row, keepUpperLetters(tDescription))
    /\ index' = index + 1
    /\ UNCHANGED <<pc, pageIndex, elements, leftmostElements, developmentApplications,
                   returned, gridVars, callVars>>
    /\ UNCHANGED <<page, parseCellsVars, mainVars>>

\* Any other anchor row: its values are folded into the record of its number
ApplicationRow ==
    /\ pc = "rows"
    /\ index < Len(leftmostElements)
    /\ ~(index = 0 /\ headingKey(leftmostElements[index + 1]) = <<"D","E","V","N","O">>)
    /\ LET row == rowOfAnchor(elements, leftmostElements, index)
           values == extractRow(row, leftmostElements[index + 1], currentHeadings)
       IN developmentApplications' = foldRow(developmentApplications, values, currentHeadings)
    /\ index' = index + 1
    /\ UNCHANGED <<pc, pageIndex, elements, leftmostElements, headingVars, returned,
                   gridVars, callVars>>
    /\ UNCHANGED <<page, parseCellsVars, mainVars>>

\* The end of the loop over the anchors: on to the next page
NextPage ==
    /\ pc = "rows"
    /\ index >= Len(leftmostElements)
    /\ pageIndex' = pageIndex + 1
    /\ pc' = "getPage"
    /\ elements' = <<>>
    /\ leftmostElements' = <<>>
    /\ index' = 0
    /\ UNCHANGED <<headingVars, developmentApplications, returned, gridVars, callVars>>
    /\ page' = NoPage
    /\ UNCHANGED <<parseCellsVars, mainVars>>

\* pageIndex has reached pdf.numPages: the invalid records are dropped
ReturnApplications ==
    /\ pc = "getPage"
    /\ returned' = filterApplications(developmentApplications)
    /\ pc' = "done"
    /\ UNCHANGED <<pageIndex, elements, columnVars, developmentApplications,
                   gridVars, callVars>>
    /\ UNCHANGED <<page, parseCellsVars, mainVars>>

ColumnNext == GetPage \/ HeadingRow \/ ApplicationRow \/ NextPage \/ ReturnApplications

SpecColumn == ColumnInit /\ [][ColumnNext]_vars

-----------------------------------------------------------------------------
(* Grid mode (src/unnamed/part_000): rectangles, cells and rows             *)

Rectangle(x, y, width, height) == [x |-> x, y |-> y, width |-> width, height |-> height]

\* intersect taking its left edge from the first rectangle alone
intersectFromFirst(rectangle1, rectangle2) ==
    LET x1 == rectangle1.x
        y1 == Max2(rectangle1.y, rectangle2.y)
        x2 == Min2(rectangle1.x + rectangle1.width, rectangle2.x + rectangle2.width)
        y2 == Min2(rectangle1.y + rectangle1.height, rectangle2.y + rectangle2.height)
    IN IF x2 >= x1 /\ y2 >= y1
       THEN Rectangle(x1, y1, x2 - x1, y2 - y1)
       ELSE Rectangle(0, 0, 0, 0)

\* intersect with ">" for ">=" in its test
intersectStrict(rectangle1, rectangle2) ==
    LET x1 == Max2(rectangle1.x, rectangle2.x)
        y1 == Max2(rectangle1.y, rectangle2.y)
        x2 == Min2(rectangle1.x + rectangle1.width, rectangle2.x + rectangle2.width)
        y2 == Min2(rectangle1.y + rectangle1.height, rectangle2.y + rectangle2.height)
    IN IF x2 > x1 /\ y2 > y1
       THEN Rectangle(x1, y1, x2 - x1, y2 - y1)
       ELSE Rectangle(0, 0, 0, 0)

intersect(rectangle1, rectangle2) ==
    LET x1 == Max2(rectangle1.x, rectangle2.x)
        y1 == Max2(rectangle1.y, rectangle2.y)
        x2 == Min2(rectangle1.x + rectangle1.width, rectangle2.x + rectangle2.width)
        y2 == Min2(rectangle1.y + rectangle1.height, rectangle2.y + rectangle2.height)
    IN IF x2 >= x1 /\ y2 >= y1
       THEN Rectangle(x1, y1, x2 - x1, y2 - y1)
       ELSE Rectangle(0, 0, 0, 0)

getArea(rectangle) == rectangle.width * rectangle.height

getPercentageOfElementInCell(element, cell) ==
    LET elementArea == getArea(element)
        intersectionArea == getArea(intersect(cell, element))
    IN IF elementArea = 0 THEN Fraction(0, 1)
       ELSE Fraction(intersectionArea * 100, elementArea)

\* p >= k for a fraction p with a positive denominator
atLeast(p, k) == p.num >= k * p.den

\* The ownership test with ">=" for ">"
isOwnerAtHalf(element, cell) ==
    atLeast(getPercentageOfElementInCell(element, cell), 50)

\* cell => getPercentageOfElementInCell(element, cell) > 50
isOwner(element, cell) ==
    greaterThan(getPercentageOfElementInCell(element, cell), 50)

\* isHorizontalLine without the least width
isHorizontalLineOfAnyWidth(line) == line.height <= 2

isHorizontalLine(line) ==
    line.height <= 2 /\ line.width >= 200

isVerticalLine(line) == ~isHorizontalLine(line) /\ line.width <= 2 /\ line.height >= 10

verticalLineComparer(a, b) == IF a.x > b.x THEN 1 ELSE IF a.x < b.x THEN -1 ELSE 0

horizontalLineComparer(a, b) == IF a.y > b.y THEN 1 ELSE IF a.y < b.y THEN -1 ELSE 0

\* parseCells without the two sorts of the lines
parseCellsUnsorted(committed) ==
    LET horizontalLines == SelectSeq(committed, isHorizontalLine)
        verticalLines == SelectSeq(committed, isVerticalLine)
        H == Len(horizontalLines) - 1
        V == Len(verticalLines) - 1
    IN IF H < 1 \/ V < 1 THEN <<>>
       ELSE asSequence([k \in 1..(H * V) |->
                LET h == ((k - 1) \div V) + 1
                    v == ((k - 1) % V) + 1
                IN [elements |-> <<>>,
                    x |-> verticalLines[v].x,
                    y |-> horizontalLines[h].y,
                    width |-> verticalLines[v + 1].x - verticalLines[v].x,
                    height |-> horizontalLines[h + 1].y - horizontalLines[h].y]])

\* The cells of the grid that the filled rectangles of a page (its lines) make up
parseCells(committed) ==
    LET horizontalLines == sort(SelectSeq(committed, isHorizontalLine),
                                horizontalLineComparer)
        verticalLines == sort(SelectSeq(committed, isVerticalLine), verticalLineComparer)
        H == Len(horizontalLines) - 1
        V == Len(verticalLines) - 1
    IN IF H < 1 \/ V < 1 THEN <<>>
       ELSE asSequence([k \in 1..(H * V) |->
                LET h == ((k - 1) \div V) + 1
                    v == ((k - 1) % V) + 1
                IN [elements |-> <<>>,
                    x |-> verticalLines[v].x,
                    y |-> horizontalLines[h].y,
                    width |-> verticalLines[v + 1].x - verticalLines[v].x,
                    height |-> horizontalLines[h + 1].y - horizontalLines[h].y]])

cellComparer(a, b) ==
    IF Abs(a.y - b.y) < 2
    THEN (IF a.x > b.x THEN 1 ELSE IF a.x < b.x THEN -1 ELSE 0)
    ELSE (IF a.y > b.y THEN 1 ELSE -1)

\* The place in the cells of the owner of the element, 0 when it has no owner
ownerCell(element, sortedCells) ==
    IF \E i \in 1..Len(sortedCells) : isOwner(element, sortedCells[i])
    THEN Least({i \in 1..Len(sortedCells) : isOwner(element, sortedCells[i])})
    ELSE 0

\* The cells once every element is pushed onto the elements of its owner
allocate(sortedElements, sortedCells) ==
    LET owner == asSequence([k \in 1..Len(sortedElements) |->
                     ownerCell(sortedElements[k], sortedCells)])
    IN asSequence([i \in 1..Len(sortedCells) |->
           [sortedCells[i] EXCEPT !.elements =
               selectAt(sortedElements, {k \in 1..Len(sortedElements) : owner[k] = i})]])

\* groupRows with a cell joining a row only when its y is that of the first cell
RECURSIVE groupRowsByEqualY(_, _)
groupRowsByEqualY(found, rest) ==
    IF rest = <<>> THEN found
    ELSE LET cell == Head(rest)
             near == {r \in 1..Len(found) : found[r][1].y = cell.y}
         IN groupRowsByEqualY(IF near = {} THEN Append(found, <<cell>>)
                              ELSE [found EXCEPT ![Least(near)] = Append(@, cell)],
                              Tail(rest))

\* The rows after the loop over the cells, the rows found so far in the first place
RECURSIVE groupRows(_, _)
groupRows(found, rest) ==
    IF rest = <<>> THEN found
    ELSE LET cell == Head(rest)
             near == {r \in 1..Len(found) : Abs(found[r][1].y - cell.y) < 2}
         IN groupRows(IF near = {} THEN Append(found, <<cell>>)
                      ELSE [found EXCEPT ![Least(near)] = Append(@, cell)],
                      Tail(rest))

rowComparer(a, b) == IF a[1].y > b[1].y THEN 1 ELSE IF a[1].y < b[1].y THEN -1 ELSE 0

rowCellComparer(a, b) == IF a.x > b.x THEN 1 ELSE IF a.x < b.x THEN -1 ELSE 0

\* rows.sort(rowComparer) and then row.sort(rowCellComparer) for each row
sortRows(grouped) ==
    LET sorted == sort(grouped, rowComparer)
    IN asSequence([r \in 1..Len(sorted) |-> sort(sorted[r], rowCellComparer)])

\* cells.find(cell => cell.elements.some(element => ... === key))
headingCell(allCells, key) ==
    find(allCells, LAMBDA cell : \E k \in 1..Len(cell.elements) :
                       removeWhitespace(toLowerCase(cell.elements[k].text)) = key)

allDigits(text, from, to) == \A k \in from..to : IsDigit(text[k])

\* /[0-9]+\/[0-9]+/.test(text)
hasTwoNumberGroups(text) ==
    \E i, a \in 1..Len(text) :
        /\ i <= a /\ a + 2 <= Len(text)
        /\ allDigits(text, i, a) /\ text[a + 1] = "/" /\ IsDigit(text[a + 2])

\* /[0-9]+\/[0-9]+\/[0-9]+/.test(text)
hasApplicationNumber(text) ==
    \E i, a, b \in 1..Len(text) :
        /\ i <= a /\ a + 2 <= b /\ b + 2 <= Len(text)
        /\ allDigits(text, i, a) /\ text[a + 1] = "/"
        /\ allDigits(text, a + 2, b) /\ text[b + 1] = "/"
        /\ IsDigit(text[b + 2])

\* The heading cells of a page
headingCells(allCells) ==
    LET allotmentOr == headingCell(allCells, <<"a","l","l","o","t","m","e","n","t","o","r">>)
    IN [applicationNumber |-> headingCell(allCells, <<"d","/","a","n","u","m","b","e","r">>),
        receivedDate |-> headingCell(allCells, <<"r","e","c","e","i","v","e","d">>),
        legalDescription |->
            IF allotmentOr = undefined
            THEN headingCell(allCells, <<"a","l","l","o","t","m","e","n","t","/">>)
            ELSE allotmentOr,
        streetName |-> headingCell(allCells, <<"s","t","r","e","e","t","n","a","m","e">>),
        suburbName |-> headingCell(allCells, <<"t","o","w","n">>),
        description |-> headingCell(allCells, <<"p","r","o","p","o","s","a","l">>)]

\* A page is skipped only when it has no rows
skipsPageWithoutRows(h, allRows) == allRows = <<>>

\* The conditions under which the loop goes on to the next page at once
skipsPage(h, allRows) ==
    \/ allRows = <<>>
    \/ h.applicationNumber = undefined
    \/ h.streetName = undefined
    \/ h.suburbName = undefined

\* row.find(cell => getHorizontalOverlapPercentage(cell, headingCell) > 90)
cellUnder(row, heading) ==
    find(row, LAMBDA cell : greaterThan(getHorizontalOverlapPercentage(cell, heading), 90))

\* The records one row adds to developmentApplications: one or none
extractGridRow(row, h) ==
    LET applicationNumberCell == cellUnder(row, h.applicationNumber)
        receivedDateCell == cellUnder(row, h.receivedDate)
        legalDescriptionCell == cellUnder(row, h.legalDescription)
        streetNameCell == cellUnder(row, h.streetName)
        suburbNameCell == cellUnder(row, h.suburbName)
        descriptionCell == cellUnder(row, h.description)
        applicationNumber == trim(join(asSequence([k \in 1..Len(applicationNumberCell.elements) |->
                                     applicationNumberCell.elements[k].text]), <<>>))
        streetName == joinedText(streetNameCell.elements)
        suburbName == joinedText(suburbNameCell.elements)
        address == formatAddress(streetName \o COMMA \o SP \o suburbName)
        description == IF descriptionCell = undefined THEN <<>>
                       ELSE joinedText(descriptionCell.elements)
        receivedDate == IF receivedDateCell # undefined /\ Len(receivedDateCell.elements) > 0
                        THEN parseDateDMMYYYY(trim(receivedDateCell.elements[1].text))
                        ELSE <<>>
        legalDescription == IF legalDescriptionCell = undefined THEN <<>>
                            ELSE joinedText(legalDescriptionCell.elements)
    IN IF applicationNumberCell = undefined THEN <<>>
       ELSE IF ~hasApplicationNumber(applicationNumber) THEN <<>>
       ELSE IF streetNameCell = undefined \/ suburbNameCell = undefined THEN <<>>
       ELSE IF streetName = <<>> \/ suburbName = <<>> THEN <<>>
       ELSE IF address = <<>> THEN <<>>
       ELSE << [applicationNumber |-> applicationNumber,
                address |-> address,
                description |-> IF description = <<>> THEN NoDescriptionProvided
                                ELSE description,
                informationUrl |-> Url,
                commentUrl |-> CommentUrl,
                scrapeDate |-> ScrapeDate,
                receivedDate |-> receivedDate,
                legalDescription |-> legalDescription] >>

-----------------------------------------------------------------------------
(* The documents the grid-mode parser is run on: every page is a grid of    *)
(* five columns with a heading row and at most MaxRows application rows, or *)
(* the same text with no grid.  A heading may be missing; the street of a   *)
(* row may straddle two cells and its town may be a text run of no height.  *)

tDANumber == <<"D","/","A"," ","N","u","m","b","e","r">>

tStreetName == <<"S","t","r","e","e","t"," ","N","a","m","e">>

tTown == <<"T","o","w","n">>

tNumberA == <<"1","/","2","/","3">>

tNumberPadded == <<"A","1","/","2","/","3","B">>

\* The text run of a column (from 0) of a line of the grid (from 0, the heading row)
gridRun(text, line, column) == Element(text, 100 * column + 10, 85 - 20 * line, 40, 10)

gridHeadingRuns(kind) ==
    (IF kind = "noNumber" THEN <<>> ELSE <<gridRun(tDANumber, 0, 0)>>)
    \o <<gridRun(<<"R","e","c","e","i","v","e","d">>, 0, 1)>>
    \o (IF kind = "noStreet" THEN <<>> ELSE <<gridRun(tStreetName, 0, 2)>>)
    \o (IF kind = "noTown" THEN <<>> ELSE <<gridRun(tTown, 0, 3)>>)
    \o <<gridRun(<<"P","r","o","p","o","s","a","l">>, 0, 4)>>

GridRowSpecs == { [number |-> tNumberA, place |-> "inside"],
                  [number |-> <<"4","/","5","/","6">>, place |-> "inside"],
                  [number |-> tNumberPadded, place |-> "inside"],
                  [number |-> <<"1","/","2">>, place |-> "inside"],
                  [number |-> tNumberA, place |-> "straddling"],
                  [number |-> tNumberA, place |-> "flat"] }

gridRowRuns(spec, line) ==
    << gridRun(spec.number, line, 0),
       gridRun(<<"5","/","0","3","/","2","0","1","9">>, line, 1),
       IF spec.place = "straddling"
       THEN Element(wBAY \o SP \o wRD, 280, 85 - 20 * line, 40, 10)
       ELSE gridRun(wBAY \o SP \o wRD, line, 2),
       IF spec.place = "flat"
       THEN Element(wTULKA, 310, 85 - 20 * line, 40, 0)
       ELSE gridRun(wTULKA, line, 3),
       gridRun(tShed, line, 4) >>

RECURSIVE gridRowsRuns(_, _)
gridRowsRuns(specs, line) ==
    IF specs = <<>> THEN <<>>
    ELSE gridRowRuns(Head(specs), line) \o gridRowsRuns(Tail(specs), line + 1)

\* The filled rectangles of a grid of lineCount lines of text
gridLines(lineCount) ==
    asSequence([k \in 1..(lineCount + 1) |-> Rectangle(0, 100 - 20 * (k - 1), 500, 1)])
    \o asSequence([k \in 1..6 |-> Rectangle(100 * (k - 1), 100 - 20 * lineCount,
                                            1, 20 * lineCount)])

\* A page with all its headings and any application rows, or a page without a
\* heading or without the grid and one application row
GridPages ==
    { [heading |-> "full", rows |-> r] :
        r \in UNION {[1..n -> GridRowSpecs] : n \in 0..MaxRows} }
    \cup { [heading |-> k, rows |-> <<[number |-> tNumberA, place |-> "inside"]>>] :
               k \in {"noNumber", "noStreet", "noTown", "noGrid"} }

\* The filled rectangles and the text runs of a page
gridPageContent(layout) ==
    [lines |-> IF layout.heading = "noGrid" THEN <<>> ELSE gridLines(Len(layout.rows) + 1),
     items |-> gridHeadingRuns(layout.heading) \o gridRowsRuns(layout.rows, 1)]

\* A page after parseCells and parseElements, the inversion of y, the two sorts, the
\* allocation of the elements to the cells, the grouping of the cells into rows and,
\* when there are rows, the search for the heading cells
prepareGridPage(content) ==
    LET rawCells == parseCells(content.lines)
        sortedCells == sort(asSequence([i \in 1..Len(rawCells) |-> invertY(rawCells[i])]),
                            cellComparer)
        sortedElements == sort(asSequence([i \in 1..Len(content.items) |->
                                   invertY(content.items[i])]), elementComparer)
        allCells == allocate(sortedElements, sortedCells)
        grouped == groupRows(<<>>, allCells)
    IN [page |-> content,
        elements |-> sortedElements,
        cells |-> allCells,
        rows |-> IF grouped = <<>> THEN <<>> ELSE sortRows(grouped),
        headingCells |-> IF grouped = <<>> THEN NoHeadingCells ELSE headingCells(allCells)]

PreparedGridPages == {prepareGridPage(gridPageContent(layout)) : layout \in GridPages}

-----------------------------------------------------------------------------
(* parsePdf of the grid mode, one step for each page fetched and each row   *)

GridInit ==
    /\ pc = "gridGetPage"
    /\ pageIndex = 0
    /\ elements = <<>>
    /\ cells = <<>>
    /\ rows = <<>>
    /\ gridHeadingCells = NoHeadingCells
    /\ index = 0
    /\ developmentApplications = <<>>
    /\ returned = <<>>
    /\ leftmostElements = <<>>
    /\ receivedDateHeadingElement = undefined
    /\ lotNumberHeadingElement = undefined
    /\ houseNumberHeadingElement = undefined
    /\ streetNameHeadingElement = undefined
    /\ planHeadingElement = undefined
    /\ suburbNameHeadingElement = undefined
    /\ descriptionHeadingElement = undefined
    /\ arg = <<>>
    /\ ret = <<>>
    /\ page = NoPage
    /\ ParseCellsIdle
    /\ MainIdle

\* pdf.getPage, parseCells, parseElements, the inversions, the sorts, the owners, the
\* rows and the heading cells
GridGetPage ==
    /\ pc = "gridGetPage"
    /\ pageIndex < MaxPages
    /\ \E prepared \in PreparedGridPages :
          /\ page' = prepared.page
          /\ elements' = prepared.elements
          /\ cells' = prepared.cells
          /\ rows' = prepared.rows
          /\ gridHeadingCells' = prepared.headingCells
    /\ index' = 0
    /\ pc' = "gridRows"
    /\ UNCHANGED <<pageIndex, leftmostElements, headingVars, developmentApplications,
                   returned, callVars>>
    /\ UNCHANGED <<parseCellsVars, mainVars>>

\* No rows, or no heading for the number, the street or the town: on to the next page
GridSkipPage ==
    /\ pc = "gridRows"
    /\ skipsPage(gridHeadingCells, rows)
    /\ pageIndex' = pageIndex + 1
    /\ pc' = "gridGetPage"
    /\ elements' = <<>>
    /\ cells' = <<>>
    /\ rows' = <<>>
    /\ gridHeadingCells' = NoHeadingCells
    /\ index' = 0
    /\ UNCHANGED <<leftmostElements, headingVars, developmentApplications, returned,
                   callVars>>
    /\ page' = NoPage
    /\ UNCHANGED <<parseCellsVars, mainVars>>

\* One row of the page: a record is pushed, or the row is passed over
GridRow ==
    /\ pc = "gridRows"
    /\ ~skipsPage(gridHeadingCells, rows)
    /\ index < Len(rows)
    /\ developmentApplications' =
           developmentApplications \o extractGridRow(rows[index + 1], gridHeadingCells)
    /\ index' = index + 1
    /\ UNCHANGED <<pc, pageIndex, elements, gridVars, leftmostElements, headingVars,
                   returned, callVars>>
    /\ UNCHANGED <<page, parseCellsVars, mainVars>>

\* The end of the loop over the rows: on to the next page
GridNextPage ==
    /\ pc = "gridRows"
    /\ ~skipsPage(gridHeadingCells, rows)
    /\ index >= Len(rows)
    /\ pageIndex' = pageIndex + 1
    /\ pc' = "gridGetPage"
    /\ elements' = <<>>
    /\ cells' = <<>>
    /\ rows' = <<>>
    /\ gridHeadingCells' = NoHeadingCells
    /\ index' = 0
    /\ UNCHANGED <<leftmostElements, headingVars, developmentApplications, returned,
                   callVars>>
    /\ page' = NoPage
    /\ UNCHANGED <<parseCellsVars, mainVars>>

\* pageIndex has reached pdf.numPages: the records are returned as they were pushed
GridReturn ==
    /\ pc = "gridGetPage"
    /\ returned' = developmentApplications
    /\ pc' = "done"
    /\ UNCHANGED <<pageIndex, elements, gridVars, index, leftmostElements, headingVars,
                   developmentApplications, callVars>>
    /\ UNCHANGED <<page, parseCellsVars, mainVars>>

GridNext == GridGetPage \/ GridSkipPage \/ GridRow \/ GridNextPage \/ GridReturn

SpecGrid == GridInit /\ [][GridNext]_vars

\* parsePdf of either program
SpecParsePdf == (ColumnInit \/ GridInit) /\ [][ColumnNext \/ GridNext]_vars

-----------------------------------------------------------------------------
(* Properties of the column mode                                            *)

MergedFields == {"address", "receivedDate", "legalDescription", "description"}

\* C1, as the specification states it: once a field of a record holds a non-empty
\* value, no later anchor row replaces it by the empty string.
C1_NoFieldRegresses ==
    [][\A i \in 1..Len(developmentApplications) : \A f \in MergedFields :
          developmentApplications[i][f] # <<>> => developmentApplications'[i][f] # <<>>]_vars

keysUnique(applications) ==
    \A i, j \in 1..Len(applications) :
        applications[i].applicationNumber = applications[j].applicationNumber => i = j

\* C3: every step leaves at most one record for each application number, in the
\* map and in the sequence returned, and keeps every record the map already held
\* (the map is never reset, on a page change or otherwise).
C3_OneRecordPerNumber ==
    [][/\ keysUnique(developmentApplications')
       /\ keysUnique(returned')
       /\ Len(developmentApplications') >= Len(developmentApplications)
       /\ \A i \in 1..Len(developmentApplications) :
              developmentApplications'[i].applicationNumber
                  = developmentApplications[i].applicationNumber]_vars

\* C3's case: one record returned that holds the address of one anchor row and the
\* continued description of another
C3_MergedAcrossRows ==
    /\ pc = "done"
    /\ Len(returned) = 1
    /\ returned[1].address # <<>>
    /\ returned[1].description = tMore

member(e, seq) == \E m \in 1..Len(seq) : seq[m] = e

\* The elements of the page on the line of anchor i (zero-based)
onLineOf(i) == {k \in 1..Len(elements) : elements[k].y = leftmostElements[i + 1].y}

\* C8, as the specification states it: an element whose y equals the y of anchor
\* i-1 is a member neither of the row of anchor i nor of the row of anchor i-1.
C8_ExcludedFromBothRows ==
    pc = "rows" =>
        \A i \in 1..(Len(leftmostElements) - 1) : \A k \in onLineOf(i - 1) :
            /\ ~member(elements[k], rowOfAnchor(elements, leftmostElements, i))
            /\ ~member(elements[k], rowOfAnchor(elements, leftmostElements, i - 1))

\* C8, amended: an element whose y equals the y of anchor i-1 is no member of the
\* row of anchor i; it is a member of the row of anchor i-1, unless i-1 > 0 and
\* anchor i-2 has that same y.
C8_InRowOfItsOwnAnchor ==
    pc = "rows" =>
        \A i \in 1..(Len(leftmostElements) - 1) : \A k \in onLineOf(i - 1) :
            /\ ~member(elements[k], rowOfAnchor(elements, leftmostElements, i))
            /\ member(elements[k], rowOfAnchor(elements, leftmostElements, i - 1))
                   <=> (i - 1 = 0 \/ leftmostElements[i - 1].y < elements[k].y)

\* C8's case: the rows of a heading line and of an application line with two text
\* runs in the first column have been handled
C8_TwoAnchorsOnOneLine ==
    /\ pc = "rows"
    /\ index = 3
    /\ leftmostElements[2].y = leftmostElements[3].y
    /\ Cardinality(onLineOf(0)) > 1

-----------------------------------------------------------------------------
(* Properties of parsePdf in both modes and of the grid mode                *)

\* C2: no record that parsePdf returns, in the column mode or in the grid mode, has
\* an empty applicationNumber or an empty address.
C2_NoInvalidRecordReturned ==
    \A i \in 1..Len(returned) :
        returned[i].applicationNumber # <<>> /\ returned[i].address # <<>>

\* C2's case: parsePdf has returned some records and dropped others
C2_SomeRecordDropped ==
    /\ pc = "done"
    /\ returned # <<>>
    /\ Len(returned) < Len(developmentApplications)

\* C4, as the specification states it: no two records that the grid-mode parsePdf
\* returns have the same applicationNumber.
C4_UniqueNumbersReturned == pc = "done" => keysUnique(returned)

\* No element of a cell of the page reads as the heading
missingHeading(key) ==
    \A i \in 1..Len(cells) : \A k \in 1..Len(cells[i].elements) :
        removeWhitespace(toLowerCase(cells[i].elements[k].text)) # key

\* The page in hand has no rows or lacks the number, street or town heading
pageToSkip ==
    /\ pc = "gridRows"
    /\ \/ rows = <<>>
       \/ missingHeading(removeWhitespace(toLowerCase(tDANumber)))
       \/ missingHeading(removeWhitespace(toLowerCase(tStreetName)))
       \/ missingHeading(removeWhitespace(toLowerCase(tTown)))

\* C5: the step taken on a page with no rows, or without the heading of the number,
\* the street or the town, adds no record, keeps the records collected so far and
\* moves on to the fetch of the next page.
C5_SkippedPageAddsNothing ==
    [][pageToSkip =>
          /\ developmentApplications' = developmentApplications
          /\ returned' = returned
          /\ pageIndex' = pageIndex + 1
          /\ pc' = "gridGetPage"]_vars

\* C5's case: after a page that gave records, a page with rows and no street heading
\* has been fetched
C5_HeadingMissingAfterRecords ==
    /\ pageToSkip
    /\ rows # <<>>
    /\ missingHeading(removeWhitespace(toLowerCase(tStreetName)))
    /\ pageIndex > 0
    /\ developmentApplications # <<>>

\* The text is three non-empty groups of digits separated by two "/"
isNumberForm(text) ==
    LET groups == split(text, "/")
    IN /\ Len(groups) = 3
       /\ \A g \in 1..3 : groups[g] # <<>> /\ \A k \in 1..Len(groups[g]) : IsDigit(groups[g][k])

\* The record that a step has pushed
pushed == developmentApplications'[Len(developmentApplications')]

\* C6, as the specification states it: a row gives a record only if the text of its
\* application-number cell (the applicationNumber of the record) is of the form
\* digits/digits/digits, with nothing before or after.
C6_RecordOnlyOfNumberForm ==
    [][(pc = "gridRows" /\ Len(developmentApplications') > Len(developmentApplications))
          => isNumberForm(pushed.applicationNumber)]_vars

\* C6, amended: a row gives a record only if the text of its application-number cell
\* contains a run of the form digits/digits/digits; other characters may stand
\* before or after it.
C6_RecordOnlyWithNumberInside ==
    [][(pc = "gridRows" /\ Len(developmentApplications') > Len(developmentApplications))
          => \E i, j \in 1..Len(pushed.applicationNumber) :
                 i <= j /\ isNumberForm(SubSeq(pushed.applicationNumber, i, j))]_vars

\* C6's case: a row whose number stands between other characters has given a record
C6_PaddedNumberAccepted ==
    /\ pc = "gridRows"
    /\ index > 0
    /\ developmentApplications # <<>>
    /\ developmentApplications[Len(developmentApplications)].applicationNumber
           = tNumberPadded

\* The area that the element and the cell have in common
sharedArea(element, cell) ==
    Max2(0, Min2(element.x + element.width, cell.x + cell.width) - Max2(element.x, cell.x))
    * Max2(0, Min2(element.y + element.height, cell.y + cell.height)
                  - Max2(element.y, cell.y))

\* The cells (by place) that hold more than half of the area of the element
majorityCells(element) ==
    {i \in 1..Len(cells) :
        2 * sharedArea(element, cells[i]) > element.width * element.height}

-----------------------------------------------------------------------------
(* formatAddress and the suburb split, each applied to one text             *)

wCLARE == <<"C","L","A","R","E">>

wPERTH == <<"P","E","R","T","H">>

SLASH == <<"/">>

\* The ways a part of the suburb text begins
HundredPrefixes == { <<>>, wHD, <<"h","d"," ">>, <<"H","d"," ">>, wHD \o wHD }

SuburbTexts ==
    { p1 \o n1 \o sep \o p2 \o n2 :
          p1 \in HundredPrefixes, p2 \in HundredPrefixes,
          n1 \in {wTULKA}, n2 \in {wCLARE}, sep \in {SLASH, SP \o SLASH \o SP} }
    \cup { p1 \o wTULKA : p1 \in HundredPrefixes }
    \cup { wTULKA \o SLASH \o wCLARE \o SLASH \o wHD \o wPERTH }

StreetTexts ==
    { <<"1">> \o SP \o wBAY \o SP \o wRD,
      <<"1">> \o SP \o wBAY \o SP \o wTCE \o SP \o <<"N","T","H">>,
      wBAY \o SP \o wTCE \o SP \o <<"W","E","S","T">>,
      wBAY \o SP \o wTCE }

SuburbParts ==
    { <<>>,
      COMMA \o SP \o wTULKA,
      COMMA \o SP \o <<"T","U","L","K","E","R">>,
      COMMA \o SP \o wPERTH,
      COMMA \o wBAY \o COMMA \o SP \o wPERTH \o SP \o wTCE \o SP \o <<"S","T","H">> }

Paddings == { <<>>, SP, SP \o SP }

AddressTexts ==
    { before \o street \o suburb \o after :
          before \in Paddings, street \in StreetTexts,
          suburb \in SuburbParts, after \in Paddings }

\* The texts handed to formatStreetName
StreetNameTexts ==
    { before \o street \o after :
          before \in Paddings, after \in Paddings,
          street \in { <<"1">> \o SP \o wBAY \o SP \o wRD,
                       <<"1">> \o SP \o <<"b","a","y">> \o SP \o <<"r","d">>,
                       <<"1">> \o SP \o SP \o wBAY \o SP \o wRD,
                       <<"7"," ","A"," ","1">> \o SP \o wBAY \o SP \o wRD,
                       wBAY \o SP \o wROAD,
                       <<"1">> \o SP \o wBAY \o SP \o <<"R","O","A","F">>,
                       <<"7"," ","A"," ","1">> \o SP \o wBAY \o SP \o <<"R","O","A","F">>,
                       wBAY \o SP \o <<"R","X">>,
                       <<"1"," ","M","A","I","N">> \o SP \o wRD,
                       <<"1"," ","S","m","i","t","h"," ","S","t">>,
                       <<>> } }

CallInit ==
    /\ pc = "call"
    /\ arg \in { [of |-> "formatAddress", text |-> t] : t \in AddressTexts }
               \cup { [of |-> "suburbName", text |-> t] : t \in SuburbTexts }
               \cup { [of |-> "formatStreetName", text |-> t] : t \in StreetNameTexts }
    /\ ret = Null
    /\ pageIndex = 0
    /\ elements = <<>>
    /\ leftmostElements = <<>>
    /\ index = 0
    /\ receivedDateHeadingElement = undefined
    /\ lotNumberHeadingElement = undefined
    /\ houseNumberHeadingElement = undefined
    /\ streetNameHeadingElement = undefined
    /\ planHeadingElement = undefined
    /\ suburbNameHeadingElement = undefined
    /\ descriptionHeadingElement = undefined
    /\ developmentApplications = <<>>
    /\ returned = <<>>
    /\ cells = <<>>
    /\ rows = <<>>
    /\ gridHeadingCells = NoHeadingCells
    /\ page = NoPage
    /\ ParseCellsIdle
    /\ MainIdle

CallFormatAddress ==
    /\ pc = "call"
    /\ arg.of = "formatAddress"
    /\ ret' = formatAddress(arg.text)
    /\ pc' = "returned"
    /\ UNCHANGED <<arg, pageIndex, elements, columnVars, developmentApplications,
                   returned, gridVars>>
    /\ UNCHANGED <<page, parseCellsVars, mainVars>>

CallFormatStreetName ==
    /\ pc = "call"
    /\ arg.of = "formatStreetName"
    /\ ret' = formatStreetName(arg.text)
    /\ pc' = "returned"
    /\ UNCHANGED <<arg, pageIndex, elements, columnVars, developmentApplications,
                   returned, gridVars>>
    /\ UNCHANGED <<page, parseCellsVars, mainVars>>

\* The suburb text of a row, split into the hundred name and the suburb name
CallSplitSuburbName ==
    /\ pc = "call"
    /\ arg.of = "suburbName"
    /\ ret' = splitSuburbName(arg.text)
    /\ pc' = "returned"
    /\ UNCHANGED <<arg, pageIndex, elements, columnVars, developmentApplications,
                   returned, gridVars>>
    /\ UNCHANGED <<page, parseCellsVars, mainVars>>

CallNext == CallFormatAddress \/ CallFormatStreetName \/ CallSplitSuburbName

SpecCall == CallInit /\ [][CallNext]_vars

-----------------------------------------------------------------------------
(* Properties of formatAddress and of the suburb split                      *)

\* /^HD /i
beginsWithHundred(s) == startsWith(toUpperCase(s), wHD)

suburbParts == split(arg.text, "/")

\* C9, as the specification states it: of the two parts of the suburb text, the one
\* that begins with "HD " in any letter case becomes the hundred name and the other
\* the suburb name, and afterwards neither of the two begins with "HD ".
C9_HundredPartInAnyCase ==
    (pc = "returned" /\ arg.of = "suburbName" /\ Len(suburbParts) = 2) =>
        LET first == trim(suburbParts[1])
            second == trim(suburbParts[2])
        IN /\ (beginsWithHundred(second) /\ ~beginsWithHundred(first)) =>
                  (ret.hundredName = stripHundredPrefix(second) /\ ret.suburbName = first)
           /\ (beginsWithHundred(first) /\ ~beginsWithHundred(second)) =>
                  (ret.hundredName = stripHundredPrefix(first) /\ ret.suburbName = second)
           /\ ~beginsWithHundred(ret.hundredName)
           /\ ~beginsWithHundred(ret.suburbName)

\* The inputs of C10: no comma, or no suburb within edit distance 2 of the part
\* after the last comma
unformattable(address) ==
    \/ lastIndexOf(address, ",") < 0
    \/ didYouMean(SubSeq(address, lastIndexOf(address, ",") + 2, Len(address)),
                  keys(SuburbNames), 2) = Null

\* C10, as the specification states it: for an input with no comma or with no
\* suburb matched, formatAddress returns exactly the trimmed input.
C10_ReturnsTrimmedInput ==
    (pc = "returned" /\ arg.of = "formatAddress" /\ unformattable(arg.text)) =>
        ret = trim(arg.text)

\* C10, amended: for an input with no comma, or with no suburb matched once the
\* terrace abbreviations are expanded, formatAddress returns the trimmed input with
\* " TCE NTH", " TCE STH", " TCE EAST" and " TCE WEST" expanded to " TERRACE NORTH",
\* " TERRACE SOUTH", " TERRACE EAST" and " TERRACE WEST", and no other change.
C10_ReturnsTrimmedAndExpandedInput ==
    (/\ pc = "returned"
     /\ arg.of = "formatAddress"
     /\ unformattable(terraceSubstitutions(trim(arg.text)))) =>
        ret = terraceSubstitutions(trim(arg.text))

\* C10's case: a padded input with a terrace abbreviation and no suburb matched
\* has been formatted
C10_PaddedTerraceUnmatched ==
    /\ pc = "returned"
    /\ arg.of = "formatAddress"
    /\ unformattable(terraceSubstitutions(trim(arg.text)))
    /\ lastIndexOf(arg.text, ",") >= 0
    /\ trim(arg.text) # arg.text
    /\ terraceSubstitutions(trim(arg.text)) # trim(arg.text)

\* The part of the address before its last comma, and the part after it
streetPart(address) == SubSeq(address, 1, lastIndexOf(address, ","))

suburbPart(address) == SubSeq(address, lastIndexOf(address, ",") + 2, Len(address))

\* The part after the last comma is the one suburb of the dictionary, TULKA, exactly
\* or within edit distance 2 (letter case and surrounding spaces set aside)
suburbMatched(address) ==
    /\ lastIndexOf(address, ",") >= 0
    /\ editDistance(toLowerCase(collapseSpaces(trim(suburbPart(address)))),
                    toLowerCase(wTULKA)) <= 2

\* C11, as the specification states it: for an input whose part after the last
\* comma matches a suburb, formatAddress returns formatStreetName of the part of the
\* input before the last comma, then ", ", then the canonical entry of the suburb.
C11_StreetOfInputAndCanonicalSuburb ==
    (pc = "returned" /\ arg.of = "formatAddress" /\ suburbMatched(arg.text)) =>
        ret = formatStreetName(streetPart(arg.text)) \o COMMA \o SP
                  \o wTULKA \o SP \o <<"S","A">> \o SP \o <<"5","6","0","7">>

\* C11, amended: the input is first trimmed and its terrace abbreviations expanded;
\* when the part of that text after its last comma matches a suburb, formatAddress
\* returns formatStreetName of the part of that text before the last comma, then
\* ", ", then the canonical entry of the suburb (with state and postcode).
C11_StreetOfExpandedInputAndCanonicalSuburb ==
    (/\ pc = "returned"
     /\ arg.of = "formatAddress"
     /\ suburbMatched(terraceSubstitutions(trim(arg.text)))) =>
        ret = formatStreetName(streetPart(terraceSubstitutions(trim(arg.text))))
                  \o COMMA \o SP
                  \o wTULKA \o SP \o <<"S","A">> \o SP \o <<"5","6","0","7">>

\* C11's case: an address with a terrace abbreviation in its street and a suburb one
\* letter away from TULKA has been formatted
C11_TerraceStreetAndMisspeltSuburb ==
    /\ pc = "returned"
    /\ arg.of = "formatAddress"
    /\ suburbMatched(terraceSubstitutions(trim(arg.text)))
    /\ toUpperCase(trim(suburbPart(arg.text))) # wTULKA
    /\ terraceSubstitutions(trim(arg.text)) # trim(arg.text)
    /\ ret # terraceSubstitutions(trim(arg.text))

-----------------------------------------------------------------------------
(* Properties of formatStreetName.  The street dictionary holds the one     *)
(* street BAY ROAD and the suffix dictionary the one entry RD -> ROAD.       *)

\* The text trimmed and uppercased, with its last token expanded
expandedText(text) ==
    LET upper == toUpperCase(trim(text))
        cut == lastIndexOf(upper, " ")
        last == SubSeq(upper, cut + 2, Len(upper))
    IN SubSeq(upper, 1, cut + 1) \o (IF last = wRD THEN wROAD ELSE last)

\* Some trailing window of 6, 5, 4, 3 or 2 tokens is exactly BAY ROAD: the expanded
\* text is BAY ROAD, or ends with BAY ROAD after a space
hasExactWindow(text) ==
    LET e == expandedText(text)
        street == wBAY \o SP \o wROAD
    IN \/ e = street
       \/ /\ Len(e) > Len(street)
          /\ SubSeq(e, Len(e) - Len(street), Len(e)) = SP \o street

\* The window sizes at which BAY ROAD is within 7 - w edits of the trailing w tokens
acceptedWindows(text) ==
    LET tokens == split(expandedText(text), " ")
    IN {w \in 2..6 :
           editDistance(toLowerCase(collapseSpaces(trim(join(sliceLast(tokens, w), SP)))),
                        toLowerCase(wBAY \o SP \o wROAD)) <= 7 - w}

\* C12: when a trailing window of the tokens (uppercased, last token expanded) is
\* exactly a street of the dictionary, formatStreetName returns all the tokens in
\* their order, joined by single spaces, whatever a fuzzy match would have given.
C12_ExactWindowKeepsAllTokens ==
    (pc = "returned" /\ arg.of = "formatStreetName" /\ hasExactWindow(arg.text)) =>
        ret = expandedText(arg.text)

\* C12's case: a street with leading tokens and an abbreviated suffix has been
\* formatted, and a window of it is also within the fuzzy threshold
C12_PrefixedStreetWithSuffix ==
    /\ pc = "returned"
    /\ arg.of = "formatStreetName"
    /\ hasExactWindow(arg.text)
    /\ Len(split(expandedText(arg.text), " ")) > 2
    /\ expandedText(arg.text) # toUpperCase(trim(arg.text))
    /\ \E w \in acceptedWindows(arg.text) : w > 2

C13_UnmatchedTextReturned ==
    /\ pc = "returned"
    /\ arg.of = "formatStreetName"
    /\ ~hasExactWindow(arg.text)
    /\ acceptedWindows(arg.text) = {}
    /\ arg.text # <<>>
    /\ ret = arg.text
    /\ ret # toUpperCase(trim(arg.text))

-----------------------------------------------------------------------------
(* intersect and getHorizontalOverlapPercentage, each applied to one pair   *)
(* of rectangles                                                            *)

MaxCoordinate == 0

MaxSize == 2

\* Rectangles with integer coordinates and sides that are not negative
Rectangles ==
    { Rectangle(x, y, width, height) :
          x \in -1..MaxCoordinate, y \in -1..MaxCoordinate,
          width \in 0..MaxSize, height \in 0..MaxSize }

\* The same rectangles as elements, and the unset element
OverlapArguments ==
    { Element(<<>>, r.x, r.y, r.width, r.height) : r \in Rectangles } \cup {undefined}

GeometryInit ==
    /\ pc = "call"
    /\ arg \in { [of |-> "intersect", rectangle1 |-> a, rectangle2 |-> b] :
                    a \in Rectangles, b \in Rectangles }
               \cup { [of |-> "getHorizontalOverlapPercentage",
                       rectangle1 |-> a, rectangle2 |-> b] :
                         a \in OverlapArguments, b \in OverlapArguments }
    /\ ret = Null
    /\ pageIndex = 0
    /\ elements = <<>>
    /\ leftmostElements = <<>>
    /\ index = 0
    /\ receivedDateHeadingElement = undefined
    /\ lotNumberHeadingElement = undefined
    /\ houseNumberHeadingElement = undefined
    /\ streetNameHeadingElement = undefined
    /\ planHeadingElement = undefined
    /\ suburbNameHeadingElement = undefined
    /\ descriptionHeadingElement = undefined
    /\ developmentApplications = <<>>
    /\ returned = <<>>
    /\ cells = <<>>
    /\ rows = <<>>
    /\ gridHeadingCells = NoHeadingCells
    /\ page = NoPage
    /\ ParseCellsIdle
    /\ MainIdle

CallIntersect ==
    /\ pc = "call"
    /\ arg.of = "intersect"
    /\ ret' = intersect(arg.rectangle1, arg.rectangle2)
    /\ pc' = "returned"
    /\ UNCHANGED <<arg, pageIndex, elements, columnVars, developmentApplications,
                   returned, gridVars>>
    /\ UNCHANGED <<page, parseCellsVars, mainVars>>

CallGetHorizontalOverlapPercentage ==
    /\ pc = "call"
    /\ arg.of = "getHorizontalOverlapPercentage"
    /\ ret' = getHorizontalOverlapPercentage(arg.rectangle1, arg.rectangle2)
    /\ pc' = "returned"
    /\ UNCHANGED <<arg, pageIndex, elements, columnVars, developmentApplications,
                   returned, gridVars>>
    /\ UNCHANGED <<page, parseCellsVars, mainVars>>

GeometryNext == CallIntersect \/ CallGetHorizontalOverlapPercentage

SpecGeometry == GeometryInit /\ [][GeometryNext]_vars

\* C14: intersect is commutative: the rectangle returned for (A, B) is the one
\* intersect gives for (B, A), in x, y, width and height.
C14_IntersectCommutes ==
    (pc = "returned" /\ arg.of = "intersect") =>
        LET swapped == intersect(arg.rectangle2, arg.rectangle1)
        IN /\ ret.x = swapped.x
           /\ ret.y = swapped.y
           /\ ret.width = swapped.width
           /\ ret.height = swapped.height

\* C14's case: two different rectangles that overlap in part, the second starting
\* left of and below the first, have been intersected
C14_DistinctOverlappingPair ==
    /\ pc = "returned"
    /\ arg.of = "intersect"
    /\ arg.rectangle2.x < arg.rectangle1.x
    /\ arg.rectangle2.y < arg.rectangle1.y
    /\ getArea(ret) > 0
    /\ ret # arg.rectangle1
    /\ ret # arg.rectangle2

\* Positions at half-unit steps: position p stands for the coordinate p / 2
HalfSteps == (2 * (-1))..(2 * (MaxCoordinate + MaxSize))

\* The two rectangles leave a gap between them on the x axis or on the y axis
disjointOnAnAxis(a, b) ==
    \/ a.x + a.width < b.x
    \/ b.x + b.width < a.x
    \/ a.y + a.height < b.y
    \/ b.y + b.height < a.y

\* An interior point common to the two rectangles
shareInteriorPoint(a, b) ==
    /\ \E p \in HalfSteps :
           /\ 2 * a.x < p /\ p < 2 * (a.x + a.width)
           /\ 2 * b.x < p /\ p < 2 * (b.x + b.width)
    /\ \E p \in HalfSteps :
           /\ 2 * a.y < p /\ p < 2 * (a.y + a.height)
           /\ 2 * b.y < p /\ p < 2 * (b.y + b.height)

\* C15: for rectangles apart on an axis intersect returns the rectangle of zeros at
\* the origin; otherwise it returns the rectangle of the points that lie in both
\* (edges included), and its area is zero exactly when the two share no interior
\* point.
C15_OverlapOrZeroAtOrigin ==
    (pc = "returned" /\ arg.of = "intersect") =>
        LET a == arg.rectangle1
            b == arg.rectangle2
        IN IF disjointOnAnAxis(a, b) THEN ret = Rectangle(0, 0, 0, 0)
           ELSE /\ \A p \in HalfSteps :
                       (2 * ret.x <= p /\ p <= 2 * (ret.x + ret.width))
                           <=> /\ 2 * a.x <= p /\ p <= 2 * (a.x + a.width)
                               /\ 2 * b.x <= p /\ p <= 2 * (b.x + b.width)
                /\ \A p \in HalfSteps :
                       (2 * ret.y <= p /\ p <= 2 * (ret.y + ret.height))
                           <=> /\ 2 * a.y <= p /\ p <= 2 * (a.y + a.height)
                               /\ 2 * b.y <= p /\ p <= 2 * (b.y + b.height)
                /\ getArea(ret) = 0 <=> ~shareInteriorPoint(a, b)

\* C15's case: two rectangles of positive area that touch along an edge, below the
\* origin, have been intersected
C15_TouchingAlongAnEdge ==
    /\ pc = "returned"
    /\ arg.of = "intersect"
    /\ getArea(arg.rectangle1) > 0
    /\ getArea(arg.rectangle2) > 0
    /\ arg.rectangle1.x + arg.rectangle1.width = arg.rectangle2.x
    /\ ret.height > 0
    /\ ret.width = 0
    /\ ret.y # 0

\* The rectangle flattened onto the x axis
flattened(rectangle) ==
    IF rectangle = undefined THEN undefined
    ELSE [rectangle EXCEPT !.y = 0, !.height = 0]

\* C16: the horizontal overlap lies between 0 and 100; it is 0 when an argument is
\* undefined, when a width is zero and when the x-projections do not overlap or
\* only touch; it is 100 when the x-projections are the same and not empty; it is
\* the same whatever the y and the height of the two rectangles.
C16_OverlapPercentage ==
    (pc = "returned" /\ arg.of = "getHorizontalOverlapPercentage") =>
        LET a == arg.rectangle1
            b == arg.rectangle2
        IN /\ ret.den > 0
           /\ 0 <= ret.num
           /\ ret.num <= 100 * ret.den
           /\ (a = undefined \/ b = undefined) => ret.num = 0
           /\ (a # undefined /\ b # undefined) =>
                 /\ (\/ a.width = 0 \/ b.width = 0
                     \/ a.x + a.width <= b.x \/ b.x + b.width <= a.x) => ret.num = 0
                 /\ (a.x = b.x /\ a.width = b.width /\ a.width > 0) =>
                        ret.num = 100 * ret.den
           /\ ret.num * getHorizontalOverlapPercentage(flattened(a), flattened(b)).den
                = getHorizontalOverlapPercentage(flattened(a), flattened(b)).num * ret.den

\* C16's case: two rectangles at different heights whose x-projections overlap in
\* part have been compared
C16_PartialOverlapAtDifferentHeights ==
    /\ pc = "returned"
    /\ arg.of = "getHorizontalOverlapPercentage"
    /\ arg.rectangle1 # undefined
    /\ arg.rectangle2 # undefined
    /\ arg.rectangle1.y + arg.rectangle1.height < arg.rectangle2.y
    /\ 0 < ret.num
    /\ ret.num < 100 * ret.den

-----------------------------------------------------------------------------
(* parseCells (src/unnamed/part_000): the walk over the operator list of a  *)
(* page, one step for each instruction, and then the cells                  *)

MaxOperators == 3

\* The value of `transform` after a pop from an empty stack
UndefinedTransform == <<"undefined">>

\* pdfjs.Util.transform(m1, m2)
UtilTransform(m1, m2) ==
    << m1[1] * m2[1] + m1[3] * m2[2],
       m1[2] * m2[1] + m1[4] * m2[2],
       m1[1] * m2[3] + m1[3] * m2[4],
       m1[2] * m2[3] + m1[4] * m2[4],
       m1[1] * m2[5] + m1[3] * m2[6] + m1[5],
       m1[2] * m2[5] + m1[4] * m2[6] + m1[6] >>

\* pdfjs.Util.applyTransform(p, m)
applyTransform(p, m) ==
    << p[1] * m[1] + p[2] * m[3] + m[5], p[1] * m[2] + p[2] * m[4] + m[6] >>

\* The instructions of an operator list: fn is the entry of fnArray and args the
\* entry of argsArray
Instruction(fn, args) == [fn |-> fn, args |-> args]

\* A path of one rectangle, a path of one line, a path of a line and a rectangle;
\* a shift with a doubling of x; the instructions without arguments
Instructions ==
    { Instruction("constructPath", << <<"rectangle">>, <<0, 50, 300, 1>> >>),
      Instruction("constructPath", << <<"moveTo", "lineTo">>, <<0, 0, 300, 0>> >>),
      Instruction("constructPath",
                  << <<"moveTo", "lineTo", "rectangle">>, <<0, 0, 5, 5, 40, 0, 1, 90>> >>),
      Instruction("transform", <<2, 0, 0, 1, 10, 20>>),
      Instruction("save", <<>>),
      Instruction("restore", <<>>),
      Instruction("fill", <<>>),
      Instruction("eoFill", <<>>),
      Instruction("stroke", <<>>) }

OperatorLists == UNION { [1..n -> Instructions] : n \in 0..MaxOperators }

\* The rectangle that a path leaves in previousRectangle, read from the arguments
\* from argumentIndex on: the last rectangle of the path, or the one left before
RECURSIVE walkPath(_, _, _, _, _)
walkPath(operations, arguments, operationIndex, argumentIndex, previous) ==
    IF operationIndex > Len(operations) THEN previous
    ELSE IF operations[operationIndex] \in {"moveTo", "lineTo"}
         THEN walkPath(operations, arguments, operationIndex + 1, argumentIndex + 2,
                       previous)
         ELSE IF operations[operationIndex] = "rectangle"
              THEN LET x1 == arguments[argumentIndex + 1]
                       y1 == arguments[argumentIndex + 2]
                       x2 == x1 + arguments[argumentIndex + 3]
                       y2 == y1 + arguments[argumentIndex + 4]
                       p1 == applyTransform(<<x1, y1>>, transform)
                       p2 == applyTransform(<<x2, y2>>, transform)
                   IN walkPath(operations, arguments, operationIndex + 1,
                               argumentIndex + 4,
                               Rectangle(p1[1], p1[2], p2[1] - p1[1], p2[2] - p1[2]))
              ELSE walkPath(operations, arguments, operationIndex + 1, argumentIndex,
                            previous)

hasRectangle(instruction) ==
    /\ instruction.fn = "constructPath"
    /\ \E k \in 1..Len(instruction.args[1]) : instruction.args[1][k] = "rectangle"

ParseCellsInit ==
    /\ pc = "parseCells"
    /\ operators \in OperatorLists
    /\ index = 0
    /\ lines = <<>>
    /\ previousRectangle = undefined
    /\ transformStack = <<IdentityTransform>>
    /\ transform = IdentityTransform
    /\ cells = <<>>
    /\ pageIndex = 0
    /\ elements = <<>>
    /\ leftmostElements = <<>>
    /\ receivedDateHeadingElement = undefined
    /\ lotNumberHeadingElement = undefined
    /\ houseNumberHeadingElement = undefined
    /\ streetNameHeadingElement = undefined
    /\ planHeadingElement = undefined
    /\ suburbNameHeadingElement = undefined
    /\ descriptionHeadingElement = undefined
    /\ developmentApplications = <<>>
    /\ returned = <<>>
    /\ rows = <<>>
    /\ gridHeadingCells = NoHeadingCells
    /\ arg = <<>>
    /\ ret = <<>>
    /\ page = NoPage
    /\ MainIdle

\* What every step of the walk leaves alone
parseCellsFrame ==
    UNCHANGED <<pageIndex, elements, leftmostElements, headingVars,
                developmentApplications, returned, rows, gridHeadingCells, callVars,
                page, operators, mainVars>>

\* OPS.restore: transform = transformStack.pop()
Restore ==
    /\ pc = "parseCells"
    /\ index < Len(operators)
    /\ operators[index + 1].fn = "restore"
    /\ transform' = IF transformStack = <<>> THEN UndefinedTransform
                    ELSE transformStack[Len(transformStack)]
    /\ transformStack' = IF transformStack = <<>> THEN <<>>
                         ELSE SubSeq(transformStack, 1, Len(transformStack) - 1)
    /\ index' = index + 1
    /\ UNCHANGED <<pc, lines, previousRectangle, cells>>
    /\ parseCellsFrame

\* OPS.save: transformStack.push(transform)
Save ==
    /\ pc = "parseCells"
    /\ index < Len(operators)
    /\ operators[index + 1].fn = "save"
    /\ transformStack' = Append(transformStack, transform)
    /\ index' = index + 1
    /\ UNCHANGED <<pc, lines, previousRectangle, transform, cells>>
    /\ parseCellsFrame

\* OPS.transform: the current transform is multiplied; with no current transform
\* the read of its entries throws
Transform ==
    /\ pc = "parseCells"
    /\ index < Len(operators)
    /\ operators[index + 1].fn = "transform"
    /\ IF transform = UndefinedTransform
       THEN pc' = "threw" /\ UNCHANGED <<transform, index>>
       ELSE /\ transform' = UtilTransform(transform, operators[index + 1].args)
            /\ index' = index + 1
            /\ pc' = pc
    /\ UNCHANGED <<lines, previousRectangle, transformStack, cells>>
    /\ parseCellsFrame

\* OPS.constructPath: the last rectangle of the path becomes previousRectangle; with
\* no current transform the transformation of a rectangle throws
ConstructPath ==
    /\ pc = "parseCells"
    /\ index < Len(operators)
    /\ operators[index + 1].fn = "constructPath"
    /\ IF transform = UndefinedTransform /\ hasRectangle(operators[index + 1])
       THEN pc' = "threw" /\ UNCHANGED <<previousRectangle, index>>
       ELSE /\ previousRectangle' = walkPath(operators[index + 1].args[1],
                                             operators[index + 1].args[2], 1, 0,
                                             previousRectangle)
            /\ index' = index + 1
            /\ pc' = pc
    /\ UNCHANGED <<lines, transformStack, transform, cells>>
    /\ parseCellsFrame

\* OPS.fill or OPS.eoFill with a rectangle in previousRectangle: it is pushed onto
\* the lines
Fill ==
    /\ pc = "parseCells"
    /\ index < Len(operators)
    /\ operators[index + 1].fn \in {"fill", "eoFill"}
    /\ previousRectangle # undefined
    /\ lines' = Append(lines, previousRectangle)
    /\ previousRectangle' = undefined
    /\ index' = index + 1
    /\ UNCHANGED <<pc, transformStack, transform, cells>>
    /\ parseCellsFrame

\* Any other instruction, a fill with no rectangle in previousRectangle among them
OtherInstruction ==
    /\ pc = "parseCells"
    /\ index < Len(operators)
    /\ \/ operators[index + 1].fn
            \notin {"restore", "save", "transform", "constructPath", "fill", "eoFill"}
       \/ /\ operators[index + 1].fn \in {"fill", "eoFill"}
          /\ previousRectangle = undefined
    /\ index' = index + 1
    /\ UNCHANGED <<pc, lines, previousRectangle, transformStack, transform, cells>>
    /\ parseCellsFrame

\* The end of the operator list: the lines are sorted into the grid of cells
ReturnCells ==
    /\ pc = "parseCells"
    /\ index >= Len(operators)
    /\ cells' = parseCells(lines)
    /\ pc' = "done"
    /\ UNCHANGED <<index, lines, previousRectangle, transformStack, transform>>
    /\ parseCellsFrame

ParseCellsNext ==
    Restore \/ Save \/ Transform \/ ConstructPath \/ Fill \/ OtherInstruction
        \/ ReturnCells

SpecParseCells == ParseCellsInit /\ [][ParseCellsNext]_vars

\* C17, as the specification states it: a rectangle is pushed onto the lines only by
\* a fill that comes immediately after the path holding that rectangle; a fill after
\* any other instruction, or after a path with no rectangle, pushes nothing.
C17_CommittedOnlyByFillRightAfterItsPath ==
    [][lines' # lines =>
          /\ index >= 1
          /\ operators[index + 1].fn \in {"fill", "eoFill"}
          /\ hasRectangle(operators[index])]_vars

-----------------------------------------------------------------------------
(* Properties of the column headings and of the inversion of y              *)

\* The first anchor of the page in hand reads "DEVNO" and is the next to be handled
atHeadingRow ==
    /\ pc = "rows"
    /\ index = 0
    /\ Len(leftmostElements) > 0
    /\ keepUpperLetters(toUpperCase(leftmostElements[1].text)) = <<"D","E","V","N","O">>

\* The elements of the first row of the page that read as the key
headingCandidates(key) ==
    {k \in 1..Len(elements) :
        /\ elements[k].y <= leftmostElements[1].y
        /\ keepUpperLetters(toUpperCase(elements[k].text)) = key}

\* The heading is an element of the first row that reads as the key, and undefined
\* when the row has none
capturedAs(heading, key) ==
    IF headingCandidates(key) = {} THEN heading = undefined
    ELSE \E k \in headingCandidates(key) : heading = elements[k]

\* C18: the headings change only in the step that handles a first anchor reading
\* "DEVNO"; that step leaves the records as they are and sets each of the seven
\* headings to the element of the row that reads as it, or to undefined when the
\* row has none; every other step, on this page or a later one, keeps the headings.
C18_HeadingsOnlyFromFirstDevNoRow ==
    [][/\ headingVars' # headingVars => atHeadingRow
       /\ (atHeadingRow /\ index' = 1) =>
             /\ developmentApplications' = developmentApplications
             /\ capturedAs(receivedDateHeadingElement', <<"L","O","D","G","E","D">>)
             /\ capturedAs(lotNumberHeadingElement', <<"L","O","T","N","O">>)
             /\ capturedAs(houseNumberHeadingElement', <<"S","T","N","O">>)
             /\ capturedAs(streetNameHeadingElement', <<"S","T","N","A","M","E">>)
             /\ capturedAs(planHeadingElement', <<"F","P","D","P">>)
             /\ capturedAs(suburbNameHeadingElement',
                           <<"S","U","B","U","R","B","H","D","O","F">>)
             /\ capturedAs(descriptionHeadingElement',
                           keepUpperLetters(toUpperCase(tDescription)))]_vars

\* C18's case: on a later page a heading row with the description heading alone has
\* been captured, after a record had been given its date under the earlier headings
C18_RecaptureDropsHeadings ==
    /\ pc = "rows"
    /\ index = 1
    /\ pageIndex >= 1
    /\ keepUpperLetters(toUpperCase(leftmostElements[1].text)) = <<"D","E","V","N","O">>
    /\ receivedDateHeadingElement = undefined
    /\ descriptionHeadingElement # undefined
    /\ \E i \in 1..Len(developmentApplications) :
           developmentApplications[i].receivedDate # <<>>

\* C18's other case: an anchor reading "DEVNO" that is not the first of its page has
\* been handled as an application row
C18_DevNoBelowIsNoHeading ==
    /\ pc = "rows"
    /\ index = 2
    /\ keepUpperLetters(toUpperCase(leftmostElements[2].text)) = <<"D","E","V","N","O">>
    /\ receivedDateHeadingElement = undefined
    /\ \E i \in 1..Len(developmentApplications) :
           developmentApplications[i].applicationNumber = removeWhitespace(tDevNo)

\* The element or cell with its y replaced by -(y + height)
inverted(e) == [e EXCEPT !.y = -(e.y + e.height)]

\* The two sequences hold the same values the same number of times
sameBag(a, b) ==
    LET valuesOfA == {a[j] : j \in 1..Len(a)}
    IN /\ Len(a) = Len(b)
       /\ IF Cardinality(valuesOfA) = Len(a)
          THEN valuesOfA = {b[j] : j \in 1..Len(b)}
          ELSE \A k \in 1..Len(a) :
                   Cardinality({j \in 1..Len(a) : a[j] = a[k]})
                       = Cardinality({j \in 1..Len(b) : b[j] = a[k]})

\* The elements stand in ascending y and, on one line, in ascending x: each one
\* stands so before the next one, and the order is transitive
inReadingOrder(elems) ==
    \A j \in 1..(Len(elems) - 1) :
        \/ elems[j].y < elems[j + 1].y
        \/ elems[j].y = elems[j + 1].y /\ elems[j].x <= elems[j + 1].x

\* C19: the elements of the page in hand are the elements of the page as it was
\* fetched, each with its y replaced by -(y + height) once, and they are sorted,
\* the anchors chosen and ordered, the cells sorted, the elements given to cells and
\* the cells grouped into rows by those inverted co-ordinates.
C19_InvertedOnceBeforeGrouping ==
    /\ pc = "rows" =>
          /\ sameBag(elements, [i \in 1..Len(page) |-> inverted(page[i])])
          /\ inReadingOrder(elements)
          /\ \A i \in 1..Len(leftmostElements) : member(leftmostElements[i], elements)
          /\ \A i \in 1..(Len(leftmostElements) - 1) :
                 leftmostElements[i].y <= leftmostElements[i + 1].y
    /\ pc = "gridRows" =>
          LET grid == parseCells(page.lines)
          IN /\ sameBag(elements,
                        [i \in 1..Len(page.items) |-> inverted(page.items[i])])
             /\ inReadingOrder(elements)
             /\ sameBag([i \in 1..Len(cells) |-> [cells[i] EXCEPT !.elements = <<>>]],
                        [i \in 1..Len(grid) |-> inverted(grid[i])])
             /\ \A j, k \in 1..Len(cells) :
                    j < k => \/ cells[j].y + 2 <= cells[k].y
                             \/ /\ Abs(cells[j].y - cells[k].y) < 2
                                /\ cells[j].x <= cells[k].x
             /\ \A i \in 1..Len(cells) : \A k \in 1..Len(cells[i].elements) :
                    member(cells[i].elements[k], elements)
             /\ \A r \in 1..Len(rows) : \A k \in 1..Len(rows[r]) :
                    \E i \in 1..Len(cells) :
                        /\ rows[r][k].x = cells[i].x
                        /\ rows[r][k].y = cells[i].y

\* C19's case: a page whose elements came in another order than the one they have
\* after the inversion and the sort, with a heading row and an application row
C19_PageReorderedByInvertedY ==
    /\ pc = "rows"
    /\ Len(leftmostElements) > 1
    /\ \E i \in 1..Len(page) : elements[i] # inverted(page[i])
    /\ \E i, j \in 1..Len(page) : i < j /\ page[i].y < page[j].y

-----------------------------------------------------------------------------
(* parseCells after its walk: the lines it has kept and the cells it makes   *)

MaxLines == 2

\* Two horizontal and two vertical lines, in the order of their fills
GridOfFour ==
    << Rectangle(100, 0, 1, 100), Rectangle(0, 50, 500, 1),
       Rectangle(0, 0, 1, 100), Rectangle(0, 0, 500, 1) >>

\* A third horizontal and a third vertical line; the lowest and the narrowest of
\* each; a line too short, a line too low, a line too thick, a mark and a filled box
LinePool ==
    { Rectangle(0, 100, 500, 1), Rectangle(200, 0, 1, 100),
      Rectangle(0, 25, 200, 2), Rectangle(50, 0, 2, 10),
      Rectangle(0, 10, 199, 2), Rectangle(30, 0, 2, 9),
      Rectangle(0, 75, 500, 3), Rectangle(5, 5, 5, 5), Rectangle(0, 0, 300, 300) }

LineLists ==
    { base \o others : base \in {<<>>, GridOfFour},
                       others \in UNION { [1..n -> LinePool] : n \in 0..MaxLines } }

\* An operator list that fills each of the rectangles right after its path
pathsAndFills(committed) ==
    asSequence([k \in 1..(2 * Len(committed)) |->
        IF k % 2 = 1
        THEN LET r == committed[(k + 1) \div 2]
             IN Instruction("constructPath",
                            << <<"rectangle">>, <<r.x, r.y, r.width, r.height>> >>)
        ELSE Instruction("fill", <<>>)])

\* parseCells at the end of the walk of such a list
CellsInit ==
    /\ pc = "parseCells"
    /\ lines \in LineLists
    /\ operators = pathsAndFills(lines)
    /\ index = Len(operators)
    /\ previousRectangle = undefined
    /\ transformStack = <<IdentityTransform>>
    /\ transform = IdentityTransform
    /\ cells = <<>>
    /\ pageIndex = 0
    /\ elements = <<>>
    /\ leftmostElements = <<>>
    /\ receivedDateHeadingElement = undefined
    /\ lotNumberHeadingElement = undefined
    /\ houseNumberHeadingElement = undefined
    /\ streetNameHeadingElement = undefined
    /\ planHeadingElement = undefined
    /\ suburbNameHeadingElement = undefined
    /\ descriptionHeadingElement = undefined
    /\ developmentApplications = <<>>
    /\ returned = <<>>
    /\ rows = <<>>
    /\ gridHeadingCells = NoHeadingCells
    /\ arg = <<>>
    /\ ret = <<>>
    /\ page = NoPage
    /\ MainIdle

SpecCells == CellsInit /\ [][ReturnCells]_vars

-----------------------------------------------------------------------------
(* The rows of the grid mode: the sorted cells are grouped and re-sorted     *)

MaxBands == 3

\* The y of the horizontal lines of a page: up to MaxBands + 1 of these
RuleYs == {0, 1, 2, 20, 21}

\* The filled rectangles of a grid of three vertical lines and of horizontal lines
\* at the given y
ruledLines(ys) ==
    asSequence([k \in 1..3 |-> Rectangle(100 * (k - 1), 0, 1, 100)])
    \o asSequence([k \in 1..Cardinality(ys) |-> Rectangle(0, kth(ys, k, 0), 500, 1)])

\* Every order of the values of a sequence
permutations(seq) ==
    { asSequence([k \in 1..Len(seq) |-> seq[p[k]]]) : p \in Permutations(1..Len(seq)) }

\* cellComparer orders the cells as a sort needs it
consistentOn(unsorted) ==
    \A i, j, k \in 1..Len(unsorted) :
        (cellComparer(unsorted[i], unsorted[j]) <= 0
         /\ cellComparer(unsorted[j], unsorted[k]) <= 0)
            => cellComparer(unsorted[i], unsorted[k]) <= 0

\* cells.sort(cellComparer): the sorted cells, and any order of the cells when the
\* comparer is not consistent on them, for which the order is left to the engine
sortedCells(unsorted) ==
    IF consistentOn(unsorted) THEN { sort(unsorted, cellComparer) }
    ELSE permutations(unsorted)

\* The sets of y of the horizontal lines of a page
RuleSets == { chosen \in SUBSET RuleYs : Cardinality(chosen) <= MaxBands + 1 }

RowsInit ==
    /\ pc = "groupRows"
    /\ \E ys \in RuleSets : cells \in sortedCells(parseCells(ruledLines(ys)))
    /\ rows = <<>>
    /\ pageIndex = 0
    /\ elements = <<>>
    /\ leftmostElements = <<>>
    /\ index = 0
    /\ receivedDateHeadingElement = undefined
    /\ lotNumberHeadingElement = undefined
    /\ houseNumberHeadingElement = undefined
    /\ streetNameHeadingElement = undefined
    /\ planHeadingElement = undefined
    /\ suburbNameHeadingElement = undefined
    /\ descriptionHeadingElement = undefined
    /\ developmentApplications = <<>>
    /\ returned = <<>>
    /\ gridHeadingCells = NoHeadingCells
    /\ arg = <<>>
    /\ ret = <<>>
    /\ page = NoPage
    /\ ParseCellsIdle
    /\ MainIdle

\* The loop over the cells and the two sorts
GroupRows ==
    /\ pc = "groupRows"
    /\ rows' = sortRows(groupRows(<<>>, cells))
    /\ pc' = "grouped"
    /\ UNCHANGED <<cells, gridHeadingCells, pageIndex, elements, columnVars,
                   developmentApplications, returned, callVars, page, parseCellsVars,
                   mainVars>>

SpecRows == RowsInit /\ [][GroupRows]_vars

-----------------------------------------------------------------------------
(* main (src/scraper.ts): the choice of the documents, and for each of them *)
(* parsePdf and then insertRow for every record, one after the other         *)

\* s.includes(p)
includes(s, p) ==
    \E i \in 1..(Len(s) - Len(p) + 1) : SubSeq(s, i, i + Len(p) - 1) = p

\* The addresses of the links of the page, each as new URL(href, ...).href gives it
uRegisterA == <<"R","e","g","i","s","t","e","r","1",".","P","D","F">>

uRegisterB == <<"r","e","g","i","s","t","e","r","2",".","p","d","f">>

uRegisterC == <<"r","e","g","i","s","t","e","r","3",".","p","d","f">>

uAgenda == <<"a","g","e","n","d","a",".","p","d","f">>

uRegisterPage == <<"r","e","g","i","s","t","e","r",".","h","t","m">>

\* The test a link passes to be taken as a document of the register
isRegisterPdf(pdfUrl) ==
    /\ includes(toLowerCase(pdfUrl), <<"r","e","g","i","s","t","e","r">>)
    /\ includes(toLowerCase(pdfUrl), <<".","p","d","f">>)

\* The loop over the links of the page (src/scraper.ts): a link that passes the
\* test and is not yet in the list is pushed at its end
RECURSIVE pushPdfUrls(_, _)
pushPdfUrls(found, hrefs) ==
    IF hrefs = <<>> THEN found
    ELSE LET pdfUrl == Head(hrefs)
         IN pushPdfUrls(IF /\ isRegisterPdf(pdfUrl)
                           /\ ~ \E i \in 1..Len(found) : found[i] = pdfUrl
                        THEN Append(found, pdfUrl)
                        ELSE found,
                        Tail(hrefs))

\* The loop of the grid variant with the check for a duplicate left out
RECURSIVE unshiftEveryPdfUrl(_, _)
unshiftEveryPdfUrl(found, hrefs) ==
    IF hrefs = <<>> THEN found
    ELSE LET pdfUrl == Head(hrefs)
         IN unshiftEveryPdfUrl(IF isRegisterPdf(pdfUrl)
                               THEN <<pdfUrl>> \o found
                               ELSE found,
                               Tail(hrefs))

\* The same loop in the grid variant (src/unnamed/part_000): the link is put at
\* the front of the list
RECURSIVE unshiftPdfUrls(_, _)
unshiftPdfUrls(found, hrefs) ==
    IF hrefs = <<>> THEN found
    ELSE LET pdfUrl == Head(hrefs)
         IN unshiftPdfUrls(IF /\ isRegisterPdf(pdfUrl)
                              /\ ~ \E i \in 1..Len(found) : found[i] = pdfUrl
                           THEN <<pdfUrl>> \o found
                           ELSE found,
                           Tail(hrefs))

\* The links of the pages read: none, none of the register, one document, two
\* documents of which one is linked twice
PageLinks ==
    { <<>>,
      <<uAgenda, uRegisterPage>>,
      <<uRegisterA>>,
      <<uRegisterA, uAgenda, uRegisterB, uRegisterA>> }

\* and, for the grid variant, three documents as well
GridPageLinks ==
    PageLinks \cup { <<uRegisterA, uRegisterB, uRegisterA, uRegisterPage, uRegisterC>> }

\* The lists of links main has found when the loop over the links is done
LinkLists == { pushPdfUrls(<<>>, hrefs) : hrefs \in PageLinks }

GridLinkLists == { unshiftPdfUrls(<<>>, hrefs) : hrefs \in GridPageLinks }

\* selectedPdfUrls.reverse() when it holds two documents
reverse(seq) == asSequence([i \in 1..Len(seq) |-> seq[Len(seq) + 1 - i]])

\* "insert or ignore into [data]": the table once the record is handed to it
insertOrIgnore(table, developmentApplication) ==
    IF \E i \in 1..Len(table) :
           table[i].applicationNumber = developmentApplication.applicationNumber
    THEN table
    ELSE Append(table, developmentApplication)

MainInit ==
    /\ mainPc = "start"
    /\ pdfUrls \in LinkLists
    /\ selectedPdfUrls = <<>>
    /\ urlIndex = 0
    /\ insertIndex = 0
    /\ inserting = <<>>
    /\ database = <<>>
    /\ pc = "idle"
    /\ pageIndex = 0
    /\ elements = <<>>
    /\ leftmostElements = <<>>
    /\ index = 0
    /\ receivedDateHeadingElement = undefined
    /\ lotNumberHeadingElement = undefined
    /\ houseNumberHeadingElement = undefined
    /\ streetNameHeadingElement = undefined
    /\ planHeadingElement = undefined
    /\ suburbNameHeadingElement = undefined
    /\ descriptionHeadingElement = undefined
    /\ developmentApplications = <<>>
    /\ returned = <<>>
    /\ cells = <<>>
    /\ rows = <<>>
    /\ gridHeadingCells = NoHeadingCells
    /\ arg = <<>>
    /\ ret = <<>>
    /\ page = NoPage
    /\ ParseCellsIdle

\* What the steps of main outside parsePdf leave alone
mainFrame ==
    UNCHANGED <<pageIndex, elements, leftmostElements, index, headingVars,
                developmentApplications, gridVars, callVars, page, parseCellsVars>>

\* No link: main returns.  Otherwise the last link is taken off the list, one of
\* the others is picked at random, and the two are reversed or not
SelectPdfUrls ==
    /\ mainPc = "start"
    /\ IF pdfUrls = <<>>
       THEN /\ mainPc' = "complete"
            /\ UNCHANGED <<pdfUrls, selectedPdfUrls>>
       ELSE LET popped == pdfUrls[Len(pdfUrls)]
                others == SubSeq(pdfUrls, 1, Len(pdfUrls) - 1)
            IN /\ pdfUrls' = others
               /\ \E coin \in 0..1 :
                      \E picked \in IF others = <<>>
                                    THEN { <<popped>> }
                                    ELSE { <<popped, others[random + 1]>> :
                                               random \in 0..(Len(others) - 1) } :
                          selectedPdfUrls' = IF coin = 0 THEN reverse(picked) ELSE picked
            /\ mainPc' = "parse"
    /\ UNCHANGED <<urlIndex, insertIndex, inserting, database, pc, returned>>
    /\ mainFrame

\* ParseDocument with the heading elements kept from the document before
ParseDocumentKeepingHeadings ==
    /\ mainPc = "parse"
    /\ urlIndex < Len(selectedPdfUrls)
    /\ mainPc' = "parsing"
    /\ pc' = "getPage"
    /\ pageIndex' = 0
    /\ developmentApplications' = <<>>
    /\ returned' = <<>>
    /\ UNCHANGED <<pdfUrls, selectedPdfUrls, urlIndex, insertIndex, inserting, database,
                   elements, leftmostElements, index, headingVars, gridVars, callVars,
                   page, parseCellsVars>>

\* await parsePdf(pdfUrl): the call begins with no record and no heading
ParseDocument ==
    /\ mainPc = "parse"
    /\ urlIndex < Len(selectedPdfUrls)
    /\ mainPc' = "parsing"
    /\ pc' = "getPage"
    /\ pageIndex' = 0
    /\ developmentApplications' = <<>>
    /\ returned' = <<>>
    /\ receivedDateHeadingElement' = undefined
    /\ lotNumberHeadingElement' = undefined
    /\ houseNumberHeadingElement' = undefined
    /\ streetNameHeadingElement' = undefined
    /\ planHeadingElement' = undefined
    /\ suburbNameHeadingElement' = undefined
    /\ descriptionHeadingElement' = undefined
    /\ UNCHANGED <<pdfUrls, selectedPdfUrls, urlIndex, insertIndex, inserting, database,
                   elements, leftmostElements, index, gridVars, callVars, page,
                   parseCellsVars>>

\* parsePdf has returned: the loop over its records begins
DocumentParsed ==
    /\ mainPc = "parsing"
    /\ pc = "done"
    /\ mainPc' = "insert"
    /\ insertIndex' = 0
    /\ UNCHANGED <<pdfUrls, selectedPdfUrls, urlIndex, inserting, database, pc, returned>>
    /\ mainFrame

\* insertRow with the next record: the statement is handed to the database and main
\* awaits its completion
InsertRowUnawaited ==
    /\ mainPc = "insert"
    /\ insertIndex < Len(returned)
    /\ inserting' = Append(inserting, returned[insertIndex + 1])
    /\ insertIndex' = insertIndex + 1
    /\ UNCHANGED <<mainPc, pdfUrls, selectedPdfUrls, urlIndex, database, pc, returned>>
    /\ mainFrame

InsertRow ==
    /\ mainPc = "insert"
    /\ insertIndex < Len(returned)
    /\ inserting' = Append(inserting, returned[insertIndex + 1])
    /\ mainPc' = "awaitInsert"
    /\ UNCHANGED <<pdfUrls, selectedPdfUrls, urlIndex, insertIndex, database, pc,
                   returned>>
    /\ mainFrame

\* The callback of the statement without an error: the row is inserted or ignored
\* and the promise of insertRow is resolved
InsertRowResolved ==
    /\ inserting # <<>>
    /\ database' = insertOrIgnore(database, Head(inserting))
    /\ inserting' = Tail(inserting)
    /\ mainPc = "awaitInsert"
    /\ mainPc' = "insert"
    /\ insertIndex' = insertIndex + 1
    /\ UNCHANGED <<pdfUrls, selectedPdfUrls, urlIndex, pc, returned>>
    /\ mainFrame

\* The callback of the statement with an error: the promise is rejected and main
\* ends in its catch
InsertRowRejected ==
    /\ inserting # <<>>
    /\ mainPc = "awaitInsert"
    /\ inserting' = Tail(inserting)
    /\ mainPc' = "failed"
    /\ UNCHANGED <<pdfUrls, selectedPdfUrls, urlIndex, insertIndex, database, pc,
                   returned>>
    /\ mainFrame

\* The end of the loop over the records: on to the next document
NextDocument ==
    /\ mainPc = "insert"
    /\ insertIndex >= Len(returned)
    /\ urlIndex' = urlIndex + 1
    /\ mainPc' = "parse"
    /\ UNCHANGED <<pdfUrls, selectedPdfUrls, insertIndex, inserting, database, pc,
                   returned>>
    /\ mainFrame

\* The end of the loop over the documents
MainComplete ==
    /\ mainPc = "parse"
    /\ urlIndex >= Len(selectedPdfUrls)
    /\ mainPc' = "complete"
    /\ UNCHANGED <<pdfUrls, selectedPdfUrls, urlIndex, insertIndex, inserting, database,
                   pc, returned>>
    /\ mainFrame

MainNext ==
    \/ SelectPdfUrls \/ ParseDocument \/ DocumentParsed \/ InsertRow
    \/ InsertRowResolved \/ InsertRowRejected \/ NextDocument \/ MainComplete
    \/ GetPage \/ HeadingRow \/ ApplicationRow \/ NextPage \/ ReturnApplications

SpecMain == MainInit /\ [][MainNext]_vars

\* Every record of the list has a row of the table with its application number
allInserted(records, table) ==
    \A i \in 1..Len(records) :
        \E j \in 1..Len(table) :
            table[j].applicationNumber = records[i].applicationNumber

\* C20: execution is strictly sequential.  Within parsePdf a page in hand is given
\* up only after its last row has been synthesised, and only then is the next page
\* fetched; within main the parse of the next document begins only when every
\* record of the document before has been passed to insertRow and its insert has
\* completed; at most one insertRow is in flight at any time, none during a parse.
C20_StrictlySequential ==
    [][ /\ (page # NoPage /\ page' # page) =>
               (page' = NoPage /\ index >= Len(leftmostElements))
        /\ (page' # NoPage /\ page' # page) => page = NoPage
        /\ Len(inserting') <= 1
        /\ pc' \in {"getPage", "rows"} => inserting' = <<>>
        /\ urlIndex' # urlIndex =>
               (inserting = <<>> /\ insertIndex = Len(returned)
                /\ allInserted(returned, database))
        /\ (pc = "done" /\ pc' = "getPage") =>
               (urlIndex >= 1 /\ inserting = <<>> /\ allInserted(returned, database))
      ]_vars

\* The second page of the second document is being read, the records of the first
\* document are in the table and no insert is in flight
C20_SecondDocumentAfterFirstInserted ==
    /\ urlIndex = 1
    /\ pc = "rows"
    /\ pageIndex = 1
    /\ index < Len(leftmostElements)
    /\ Len(database) >= 2
    /\ inserting = <<>>

-----------------------------------------------------------------------------
(* main of the grid mode (src/unnamed/part_000): as main above, with the     *)
(* parsePdf of the grid mode and an insertRow that replaces                  *)

\* "insert or replace into [data]": the row with the council_reference of the record,
\* if there is one, is deleted and the record is inserted
insertOrReplace(table, developmentApplication) ==
    Append(SelectSeq(table, LAMBDA stored :
                         stored.applicationNumber # developmentApplication.applicationNumber),
           developmentApplication)

\* await parsePdf(pdfUrl) of the grid mode: the call begins with no record
GridParseDocument ==
    /\ mainPc = "parse"
    /\ urlIndex < Len(selectedPdfUrls)
    /\ mainPc' = "parsing"
    /\ pc' = "gridGetPage"
    /\ pageIndex' = 0
    /\ developmentApplications' = <<>>
    /\ returned' = <<>>
    /\ UNCHANGED <<pdfUrls, selectedPdfUrls, urlIndex, insertIndex, inserting, database,
                   elements, leftmostElements, index, headingVars, gridVars, callVars,
                   page, parseCellsVars>>

\* The callback of the statement without an error, in the grid mode
GridInsertRowResolved ==
    /\ inserting # <<>>
    /\ mainPc = "awaitInsert"
    /\ database' = insertOrReplace(database, Head(inserting))
    /\ inserting' = Tail(inserting)
    /\ mainPc' = "insert"
    /\ insertIndex' = insertIndex + 1
    /\ UNCHANGED <<pdfUrls, selectedPdfUrls, urlIndex, pc, returned>>
    /\ mainFrame

\* data.sqlite is kept from one run to the next: the table is empty, or it holds
\* the row that an earlier run stored for the application 1/2/3 on the day of that run
EarlierScrapeDate == <<"2","0","1","9","-","0","2","-","2","0">>

StoredTables ==
    LET layout == [heading |-> "full",
                   rows |-> <<[number |-> tNumberA, place |-> "inside"]>>]
        prepared == prepareGridPage(gridPageContent(layout))
        parsed == extractGridRow(prepared.rows[2], prepared.headingCells)
    IN { <<>>, <<[parsed[1] EXCEPT !.scrapeDate = EarlierScrapeDate]>> }

GridMainInit ==
    /\ mainPc = "start"
    /\ pdfUrls \in GridLinkLists
    /\ selectedPdfUrls = <<>>
    /\ urlIndex = 0
    /\ insertIndex = 0
    /\ inserting = <<>>
    /\ database \in StoredTables
    /\ pc = "idle"
    /\ pageIndex = 0
    /\ elements = <<>>
    /\ leftmostElements = <<>>
    /\ index = 0
    /\ receivedDateHeadingElement = undefined
    /\ lotNumberHeadingElement = undefined
    /\ houseNumberHeadingElement = undefined
    /\ streetNameHeadingElement = undefined
    /\ planHeadingElement = undefined
    /\ suburbNameHeadingElement = undefined
    /\ descriptionHeadingElement = undefined
    /\ developmentApplications = <<>>
    /\ returned = <<>>
    /\ cells = <<>>
    /\ rows = <<>>
    /\ gridHeadingCells = NoHeadingCells
    /\ arg = <<>>
    /\ ret = <<>>
    /\ page = NoPage
    /\ ParseCellsIdle

GridMainNext ==
    \/ SelectPdfUrls \/ GridParseDocument \/ DocumentParsed \/ InsertRow
    \/ GridInsertRowResolved \/ InsertRowRejected \/ NextDocument \/ MainComplete
    \/ GridGetPage \/ GridSkipPage \/ GridRow \/ GridNextPage \/ GridReturn

SpecGridMain == GridMainInit /\ [][GridMainNext]_vars

-----------------------------------------------------------------------------
(* Properties of main                                                        *)

\* The headings of a call of parsePdf that has met no heading row
noHeadings ==
    [receivedDate |-> undefined, lotNumber |-> undefined, houseNumber |-> undefined,
     streetName |-> undefined, plan |-> undefined, suburbName |-> undefined,
     description |-> undefined]

\* The headings read from a heading row
headingsOfRow(row) ==
    [receivedDate |-> findHeading(row, <<"L","O","D","G","E","D">>),
     lotNumber |-> findHeading(row, <<"L","O","T","N","O">>),
     houseNumber |-> findHeading(row, <<"S","T","N","O">>),
     streetName |-> findHeading(row, <<"S","T","N","A","M","E">>),
     plan |-> findHeading(row, <<"F","P","D","P">>),
     suburbName |-> findHeading(row, <<"S","U","B","U","R","B","H","D","O","F">>),
     description |-> findHeading(row, keepUpperLetters(tDescription))]

\* The headings and the records of a call of parsePdf that has read the first upTo
\* rows of its first page and nothing else
RECURSIVE firstPageAlone(_, _, _)
firstPageAlone(elems, anchors, upTo) ==
    IF upTo = 0 THEN [headings |-> noHeadings, applications |-> <<>>]
    ELSE LET before == firstPageAlone(elems, anchors, upTo - 1)
             row == rowOfAnchor(elems, anchors, upTo - 1)
         IN IF upTo = 1 /\ headingKey(anchors[1]) = <<"D","E","V","N","O">>
            THEN [before EXCEPT !.headings = headingsOfRow(row)]
            ELSE [before EXCEPT !.applications =
                      foldRow(@, extractRow(row, anchors[upTo], before.headings),
                              before.headings)]

\* C21: the headings and the records of a call of parsePdf are its own.  Whatever
\* documents main has parsed before, the call begins with no heading and no record,
\* and on its first page its headings and its records are those that the rows read
\* so far give to a call that has read nothing else.
C21_ScopedToOneCall ==
    (mainPc = "parsing" /\ pageIndex = 0) =>
        /\ pc = "getPage" =>
               (currentHeadings = noHeadings /\ developmentApplications = <<>>)
        /\ pc = "rows" =>
               LET alone == firstPageAlone(elements, leftmostElements, index)
               IN /\ currentHeadings = alone.headings
                  /\ developmentApplications = alone.applications

\* C21's case: the document before gave rows to the table, so it had headings, and
\* the first page of this document, which has no heading row, has been read: its
\* records have been made without any heading
C21_SecondDocumentWithoutHeadings ==
    /\ mainPc = "parsing"
    /\ urlIndex = 1
    /\ database # <<>>
    /\ pc = "rows"
    /\ pageIndex = 0
    /\ index > 0
    /\ index = Len(leftmostElements)
    /\ currentHeadings = noHeadings
    /\ developmentApplications # <<>>

\* The row of the table with the applicationNumber of the record, in a sequence
\* that is empty when there is none
storedRows(table, developmentApplication) ==
    SelectSeq(table, LAMBDA stored :
                         stored.applicationNumber = developmentApplication.applicationNumber)

\* C22, as stated: in the grid mode an insert that completes stores the record when
\* no row of the table has its applicationNumber, and leaves the stored row as it
\* was when one has.
C22_StoredRowLeftUnchanged ==
    [][ (inserting # <<>> /\ inserting' = Tail(inserting)
         /\ mainPc = "awaitInsert" /\ mainPc' = "insert") =>
            IF storedRows(database, Head(inserting)) = <<>>
            THEN storedRows(database', Head(inserting)) = <<Head(inserting)>>
            ELSE storedRows(database', Head(inserting))
                     = storedRows(database, Head(inserting))
      ]_vars

\* The row that an earlier run stored has been replaced by the record of this run
C22_EarlierRowReplaced ==
    /\ mainPc = "insert"
    /\ insertIndex = 1
    /\ returned[1].applicationNumber = tNumberA
    /\ returned[1].scrapeDate = ScrapeDate
    /\ storedRows(database, returned[1]) = <<returned[1]>>
    /\ Len(database) = 1

-----------------------------------------------------------------------------
(* Properties of the cells of parseCells                                     *)

\* A flat and long rectangle; a narrow and high one
flatAndLong(r) == r.height <= 2 /\ r.width >= 200

narrowAndHigh(r) == r.width <= 2 /\ r.height >= 10

\* The numbers of a sequence in ascending order
ascending(numbers) ==
    sort(numbers, LAMBDA a, b : IF a > b THEN 1 ELSE IF a < b THEN -1 ELSE 0)

\* The y of the flat and long lines and the x of the narrow and high ones, ascending
lineYs(committed) ==
    LET kept == SelectSeq(committed, flatAndLong)
    IN ascending([i \in 1..Len(kept) |-> kept[i].y])

lineXs(committed) ==
    LET kept == SelectSeq(committed, narrowAndHigh)
    IN ascending([i \in 1..Len(kept) |-> kept[i].x])

\* C23: no committed rectangle is both a horizontal and a vertical line; the cells
\* have their y from rectangles with height <= 2 and width >= 200 only and their x
\* from rectangles with width <= 2 and height >= 10 only; the rectangles that are
\* neither contribute nothing: without them the cells are the same.
C23_OnlyLinesMakeCells ==
    pc = "done" =>
        /\ \A i \in 1..Len(lines) : ~(flatAndLong(lines[i]) /\ narrowAndHigh(lines[i]))
        /\ \A c \in 1..Len(cells) :
               /\ \E i \in 1..Len(lines) :
                      flatAndLong(lines[i]) /\ lines[i].y = cells[c].y
               /\ \E i \in 1..Len(lines) :
                      narrowAndHigh(lines[i]) /\ lines[i].x = cells[c].x
               /\ \E i \in 1..Len(lines) :
                      flatAndLong(lines[i]) /\ lines[i].y = cells[c].y + cells[c].height
               /\ \E i \in 1..Len(lines) :
                      narrowAndHigh(lines[i]) /\ lines[i].x = cells[c].x + cells[c].width
        /\ cells = parseCells(SelectSeq(lines, LAMBDA r : flatAndLong(r) \/ narrowAndHigh(r)))

\* C23's case: a grid has been made from lines among which stand a line too short
\* and a filled box
C23_GridAmongNoise ==
    /\ pc = "done"
    /\ cells # <<>>
    /\ \E i \in 1..Len(lines) : lines[i] = Rectangle(0, 10, 199, 2)
    /\ \E i \in 1..Len(lines) : lines[i] = Rectangle(0, 0, 300, 300)

\* C24: with H horizontal lines in ascending y and V vertical lines in ascending x
\* the cells are max(H-1, 0) * max(V-1, 0), one for each pair of neighbouring
\* horizontal lines and each pair of neighbouring vertical lines, row after row:
\* x and y are those of the first line of each pair, width and height the distance
\* to the second, neither is negative, and the cell has no element.
C24_FullCartesianGrid ==
    pc = "done" =>
        LET ys == lineYs(lines)
            xs == lineXs(lines)
            H == Max2(Len(ys) - 1, 0)
            V == Max2(Len(xs) - 1, 0)
        IN /\ Len(cells) = H * V
           /\ \A h \in 1..H : \A v \in 1..V :
                  LET cell == cells[(h - 1) * V + v]
                  IN /\ cell.x = xs[v]
                     /\ cell.y = ys[h]
                     /\ cell.width = xs[v + 1] - xs[v]
                     /\ cell.height = ys[h + 1] - ys[h]
                     /\ cell.width >= 0
                     /\ cell.height >= 0
                     /\ cell.elements = <<>>

\* C24's case: three horizontal and three vertical lines, filled in another order
\* than that of their places, have given four cells
C24_ThreeByThreeLines ==
    /\ pc = "done"
    /\ Len(lineYs(lines)) = 3
    /\ Len(lineXs(lines)) = 3
    /\ Len(cells) = 4
    /\ lines[1].x > lines[3].x

-----------------------------------------------------------------------------
(* Properties of the rows of the grid mode                                   *)

\* The place of the cell in the sorted cells
placeOf(cell) == Least({i \in 1..Len(cells) : cells[i] = cell})

\* The cell of the row that was first in the sorted cells: the one that began it
founder(row) ==
    LET first == Least({placeOf(row[k]) : k \in 1..Len(row)})
    IN cells[first]

\* C25: every cell of the page is in exactly one row.  Each cell is in the row of
\* the earliest founder before it whose y is less than 2 away from its own, and a
\* founder has no such founder before it.  After the sorts the rows are in ascending
\* y of their first cells and the cells of each row are in ascending x.
C25_RowsGroupEveryCellOnce ==
    pc = "grouped" =>
        /\ \A i \in 1..Len(cells) :
               Cardinality({ <<r, k>> \in (1..Len(rows)) \X (1..Len(cells)) :
                                k <= Len(rows[r]) /\ rows[r][k] = cells[i] }) = 1
        /\ \A r \in 1..Len(rows) :
               /\ rows[r] # <<>>
               /\ \A k \in 1..Len(rows[r]) : member(rows[r][k], cells)
               /\ \A k \in 1..Len(rows[r]) :
                      LET cell == rows[r][k]
                      IN /\ Abs(founder(rows[r]).y - cell.y) < 2
                         /\ \A q \in 1..Len(rows) :
                                (/\ placeOf(founder(rows[q])) < placeOf(cell)
                                 /\ Abs(founder(rows[q]).y - cell.y) < 2)
                                    => placeOf(founder(rows[r])) <= placeOf(founder(rows[q]))
        /\ \A r \in 1..(Len(rows) - 1) : rows[r][1].y <= rows[r + 1][1].y
        /\ \A r \in 1..Len(rows) :
               \A k \in 1..(Len(rows[r]) - 1) : rows[r][k].x <= rows[r][k + 1].x

\* C25's case: cells of two heights one apart have gone to one row and cells two
\* apart from its founder to another
C25_TwoBandsInOneRow ==
    /\ pc = "grouped"
    /\ Len(rows) = 2
    /\ Len(rows[1]) = 4
    /\ \E k \in 1..4 : rows[1][k].y # rows[1][1].y
    /\ rows[2][1].y - founder(rows[1]).y = 2

-----------------------------------------------------------------------------
(* Properties of the anchors and the rows of the column mode                 *)

\* C26, as stated: on every page each anchor is an element of its own row, the row
\* from which the fields of its record are read, also when two anchors have the
\* same y.
C26_AnchorInItsOwnRow ==
    pc = "rows" =>
        \A i \in 0..(Len(leftmostElements) - 1) :
            member(leftmostElements[i + 1], rowOfAnchor(elements, leftmostElements, i))

\* The rows of the page that hold the element
rowsHolding(element) ==
    { i \in 0..(Len(leftmostElements) - 1) :
          member(element, rowOfAnchor(elements, leftmostElements, i)) }

\* C27: the rows of a page have no element in common: an element whose y is at most
\* the y of the last anchor is in exactly one row and an element whose y is greater
\* is in none.  The elements and the anchors of a page stay as they are while its
\* rows are read, so the rows are looked at when the first of them is about to be.
C27_RowsPartitionThePage ==
    (pc = "rows" /\ index = 0 /\ leftmostElements # <<>>) =>
        \A k \in 1..Len(elements) :
            Cardinality(rowsHolding(elements[k]))
                = IF elements[k].y <= leftmostElements[Len(leftmostElements)].y
                  THEN 1 ELSE 0

\* C27's case: the rows of a page with a heading row, an application row and a line
\* under the last anchor have all been read
C27_LineUnderTheLastAnchor ==
    /\ pc = "rows"
    /\ Len(leftmostElements) = 2
    /\ index = 2
    /\ leftmostElements[1].y < leftmostElements[2].y
    /\ \E k \in 1..Len(elements) : elements[k].y > leftmostElements[2].y
    /\ \E k \in 1..Len(elements) : rowsHolding(elements[k]) = {1}

\* C28, as stated: the description of a record that holds text read from a row is
\* never replaced by the placeholder: a later row of the same applicationNumber with
\* nothing under the description heading leaves it as it is.
C28_ExtractedDescriptionKept ==
    [][ \A i \in 1..Len(developmentApplications) :
            (/\ i <= Len(developmentApplications')
             /\ developmentApplications[i].description # NoDescriptionProvided)
                => developmentApplications'[i].description # NoDescriptionProvided
      ]_vars

-----------------------------------------------------------------------------
(* Properties of the transforms of parseCells                                *)

\* The place of the save that the restore at place k undoes, 0 when it has none:
\* the list is read backwards from place at, with depth restores still to match
RECURSIVE matchingSave(_, _)
matchingSave(at, depth) ==
    IF at = 0 THEN 0
    ELSE IF operators[at].fn = "restore" THEN matchingSave(at - 1, depth + 1)
         ELSE IF operators[at].fn = "save"
              THEN (IF depth = 0 THEN at ELSE matchingSave(at - 1, depth - 1))
              ELSE matchingSave(at - 1, depth)

\* Every restore among the first k instructions has a save before it to undo
balanced(k) ==
    \A at \in 1..k : operators[at].fn = "restore" => matchingSave(at - 1, 0) # 0

\* The current transform after the first k instructions of a balanced list: the
\* product of the transform instructions, a restore bringing back the transform
\* that was current at its save
RECURSIVE transformAfter(_)
transformAfter(k) ==
    IF k = 0 THEN IdentityTransform
    ELSE IF operators[k].fn = "transform"
         THEN UtilTransform(transformAfter(k - 1), operators[k].args)
         ELSE IF operators[k].fn = "restore"
              THEN transformAfter(matchingSave(k - 1, 0) - 1)
              ELSE transformAfter(k - 1)

\* While every restore has had its save, the current transform is a matrix, and
\* after a restore it is the one that was current at the matching save
C29_BalancedRestoreGivesSavedTransform ==
    (pc = "parseCells" /\ balanced(index)) =>
        (transform # UndefinedTransform /\ transform = transformAfter(index))

\* A save, a transform and a restore have been read: the transform is the first again
C29_RestoredAfterTransform ==
    /\ pc = "parseCells"
    /\ index = 3
    /\ operators[1].fn = "save"
    /\ operators[2].fn = "transform"
    /\ operators[3].fn = "restore"
    /\ transform = IdentityTransform

\* C29, as stated: the current transform of parseCells is always a matrix, in a list
\* where every restore has an earlier save to undo, after which it is the transform
\* that was current at that save, and also in a list with more restores than saves.
C29_TransformAlwaysDefined ==
    pc = "parseCells" =>
        /\ transform # UndefinedTransform
        /\ balanced(index) => transform = transformAfter(index)

\* The documents of a selection are different documents
pairwiseDistinct(urls) ==
    \A i, j \in 1..Len(urls) : i # j => urls[i] # urls[j]

\* C30: for every list of links found on the page, main parses no document when
\* the list is empty and at most two otherwise; the selected addresses are pairwise
\* distinct and all come from the list, the address taken off the end of the list
\* by pop is one of them, whichever way round the two were put; and main goes on
\* from a document only when each of its records has a row in the table, and ends
\* only when every selected document has been gone through.
C30_LatestAndOneOtherDocument ==
    /\ pairwiseDistinct(pdfUrls)
    /\ [][ /\ Len(selectedPdfUrls') <= 2
           /\ pairwiseDistinct(selectedPdfUrls')
           /\ urlIndex' <= Len(selectedPdfUrls')
           /\ mainPc' = "parsing" => urlIndex' < Len(selectedPdfUrls')
           /\ (mainPc = "start" /\ mainPc' # "start") =>
                  IF pdfUrls = <<>>
                  THEN mainPc' = "complete" /\ selectedPdfUrls' = <<>> /\ pc' = "idle"
                  ELSE /\ \E i \in 1..Len(selectedPdfUrls') :
                              selectedPdfUrls'[i] = pdfUrls[Len(pdfUrls)]
                       /\ \A i \in 1..Len(selectedPdfUrls') :
                              \E j \in 1..Len(pdfUrls) : selectedPdfUrls'[i] = pdfUrls[j]
                       /\ Len(selectedPdfUrls') = (IF Len(pdfUrls) = 1 THEN 1 ELSE 2)
           /\ urlIndex' # urlIndex =>
                  /\ urlIndex' = urlIndex + 1
                  /\ pc = "done"
                  /\ insertIndex = Len(returned)
                  /\ allInserted(returned, database)
           /\ (mainPc' = "complete" /\ mainPc # "complete") =>
                  urlIndex = Len(selectedPdfUrls)
         ]_vars

\* Of three documents found the first was taken off the list and put second, a
\* document linked in between was picked with it, and both have been parsed and
\* their records stored
C30_PickedDocumentParsedFirst ==
    /\ mainPc = "complete"
    /\ selectedPdfUrls = <<uRegisterB, uRegisterA>>
    /\ pdfUrls = <<uRegisterC, uRegisterB>>
    /\ urlIndex = 2
    /\ returned # <<>>
    /\ allInserted(returned, database)

\* The same with the document taken off the list parsed first
C30_LatestDocumentParsedFirst ==
    /\ mainPc = "complete"
    /\ selectedPdfUrls = <<uRegisterA, uRegisterC>>
    /\ urlIndex = 2
    /\ returned # <<>>

====
